---- MODULE Spec2Model ----
(***************************************************************************)
(* A model of the stream-merge and windowing engine of extapi-acsys:       *)
(* src/src/graphql/acsys/datastream.rs (DataChannel, DataMerge,            *)
(* FilterDupes, EndOnDate), src/src/graphql/acsys/mod.rs (the             *)
(* accelerator_data query, live_data, handle_continuous, flush,            *)
(* prep_outgoing, handle_triggered) and                                    *)
(* src/src/graphql/acsys/plotconfigdb.rs (Inner).                          *)
(*                                                                         *)
(* Every stage has its own specification (SpecMerge, SpecFilter, SpecEnd,  *)
(* SpecCont, SpecTrig, SpecBeat, SpecLive, SpecDb, SpecQuery); SpecStages  *)
(* runs the three poll-based stages.  A specification drives the           *)
(* variables of its stage and leaves the variables of the other stages at  *)
(* their initial values.  Timestamps are integers; a reading is            *)
(* [timestamp, result].                                                    *)
(***************************************************************************)
EXTENDS Integers, Sequences, FiniteSets, TLC

\* ------------------------------------------------------------------ bounds

\* Replies the archived / live source delivers in one run of the merger.
MaxArch == 2
MaxLive == 2

\* Replies the upstream stream of the Duplicate Filter / of the Horizon
\* Terminator delivers in one run.
MaxDedupeIn == 2
MaxEndIn == 2

\* Replies the merged stream delivers to the Continuous Windower in one run.
MaxContIn == 3

\* Replies of the data stream / events of the clock stream that reach the
\* Trigger-Synchronized Windower in one run.
MaxTrigData == 3
MaxTrigEvents == 3

\* Clock events of a triggered plot whose data stream stays silent: enough
\* for the heartbeat divisor to go round once and on to the split after.
MaxBeats == 7

\* The ref ids of a request for two devices.
Chans == {0, 1}

\* Lengths of the reading sequence of one reply of a source of the merger
\* (the merger never splits or inspects a reading sequence).
BatchLens == {0, 1}

\* The instants readings are sampled at (0 is the epoch itself).
Times == 0 .. 2

\* The end timestamps a request asks for.
EndDates == {1}

\* Items the DPM stream delivers to live_data in one run.
MaxDpmIn == 3

\* The greatest configuration id the plot-configuration store hands out or
\* is given.
MaxPlotId == 3

\* Items the DPM stream delivers to a one-shot query.
MaxQueryIn == 3

\* ------------------------------------------------------------- variables

VARIABLES
    \* Stream Merger (DataMerge) and its two sources
    archQ,          \* replies ready at the archived source, not yet polled
    liveQ,          \* replies ready at the live source, not yet polled
    archEnd,        \* the archived source has no more replies after archQ
    liveEnd,        \* the live source has no more replies after liveQ
    archN,          \* number of replies the archived source has delivered
    liveN,          \* number of replies the live source has delivered
    archived_done,  \* DataMerge.archived_done
    live_done,      \* DataMerge.live_done
    pending,        \* DataMerge.pending: channel -> DataChannel (or absent)
    mRes,           \* result of the last poll_next: Init, Ready, Pending, Done
    mItem,          \* the reply of the last poll_next, <<>> when none
    archSent,       \* per channel: the readings the archived source delivered
    liveSent,       \* per channel: the readings the live source delivered
    archSeal,       \* per channel: open, sealed (sentinel sent), violated
    mOut,           \* per channel: the readings the merger emitted, in order
    mLog,           \* the last step, when it was a poll_next: the replies it
                    \* took from the sources, in order, with the state of
                    \* the channel before and what the channel returned
    mPolls,         \* the last step, when it was a poll_next: the sources
                    \* it polled, in order, with their answers
    \* Duplicate Filter (FilterDupes) and its upstream stream
    fQ,             \* replies ready upstream, not yet polled
    fEnd,           \* upstream has no more replies after fQ
    fN,             \* number of replies upstream has delivered
    latest,         \* FilterDupes.latest: channel -> high-water mark
    fRes,           \* result of the last poll_next
    fItem,          \* the reply of the last poll_next, <<>> when none
    fSeen,          \* per channel: the timestamps forwarded so far
    fLog,           \* the non-empty replies processed by the last poll_next,
                    \* after the last one processed before it, each with
                    \* the marks before and after it
    fPolls,         \* the answers of upstream to the polls of the last
                    \* poll_next, in order
    \* Horizon Terminator (EndOnDate) and its upstream stream
    eQ,             \* replies ready upstream, not yet polled
    eEnd,           \* upstream has no more replies after eQ
    eN,             \* number of replies upstream has delivered
    end_date,       \* the end_date given to end_stream_at: <<>> for None,
                    \* <<ts>> for Some(ts), which is EndOnDate.end_date
    total,          \* the number of devices of the request (`total`)
    remaining,      \* EndOnDate.remaining
    eRes,           \* result of the last poll_next
    eItem,          \* the reply of the last poll_next, <<>> when none
    eLog,           \* the replies processed by the last poll_next
    ePolls,         \* the answers of upstream to the polls of the last
                    \* poll_next, in order
    exceeded,       \* channels that have had a reading beyond end_date
    \* Continuous Windower (handle_continuous)
    window_size,    \* the caller's point budget, <<>> when none
    r_len,          \* r.len(), r the range x_min .. x_max + 1
    n_acquisitions, \* the caller's frame limit, <<>> when none
    reply,          \* the in-progress frame: channel -> PlotChannelData
    cN,             \* number of replies the merged stream has delivered
    cFrames,        \* number of frames emitted
    cDone,          \* the frame stream has ended
    cClosed,        \* the merged stream has ended
    cAppended,      \* the last step, when it was a reply: the in-progress
                    \* frame with the reply appended, before it was tested;
                    \* <<>> otherwise
    cOut,           \* the frame the last reply made the windower emit, or <<>>
    cLast,          \* the last step, when it was a reply: the reply, what
                    \* to_plot_data made of it and the status its channel
                    \* had before; <<>> otherwise
    cFresh,         \* the channels a reply has arrived for since the last
                    \* frame emitted before this step
    \* Trigger-Synchronized Windower (handle_triggered)
    trigger_event,  \* the caller's trigger event code
    event_time,     \* timestamp of the last trigger event, <<>> when none
    outgoing,       \* the in-progress frame: channel -> points
    divisor,        \* heartbeat divisor
    tRunning,       \* the loop of the stream has not been left
    tData,          \* number of data replies received
    tEvents,        \* number of clock events received
    tClock,         \* timestamp of the last clock event
    tSplit,         \* the last step, when it was a split: what prep_outgoing
                    \* was given and what it left; <<>> otherwise
    tFlush,         \* the last step, when it was a flush: what flush was
                    \* given and what it left; <<>> otherwise
    tNonScalar,     \* a reply with a non-scalar reading has been received
    tTerminal,      \* what the consumer of the frames is told at their end:
                    \* "open" while they have not ended
    tOut,           \* the frame the last step yielded, or <<>>
    tEv,            \* the last step, when it was a clock event: its event
                    \* code; <<>> otherwise
    \* Live stream with an end time (live_data)
    end_time,       \* the end_time given to live_data, <<>> when none
    live_remaining, \* `remaining` of the map_while closure
    lN,             \* number of items the DPM stream has delivered
    lDone,          \* the stream live_data returned has ended
    lClosed,        \* the DPM stream has ended
    lOut,           \* the reply the last item was forwarded as, or <<>>
    lLast,          \* the last step, when it was an item: the item and the
                    \* `remaining` it found; <<>> otherwise
    lExceeded,      \* indices that have delivered readings whose (first)
                    \* timestamp is beyond end_time
    \* Plot-configuration store (plotconfigdb::Inner)
    gen_map,        \* Inner.0: id -> general configuration
    user_map,       \* Inner.1: user -> user configuration
    dbLast,         \* the last operation: its argument, the general
                    \* configurations it found and what it returned
    \* One-shot query (ACSysQueries::accelerator_data)
    q_len,          \* drfs.len(), the number of devices of the request
    q_remaining,    \* `remaining`
    results,        \* `results`: one DataReply per device, in request order
    qIn,            \* number of items the DPM stream has delivered
    qRet,           \* what the query has returned, <<>> while it waits
    qGot            \* per index: the replies DPM has delivered for it

mergeVars == <<mLog, mPolls, archQ, liveQ, archEnd, liveEnd, archN, liveN,
               archived_done, live_done, pending, mRes, mItem, archSent,
               liveSent, archSeal, mOut>>

filterVars == <<fQ, fEnd, fN, latest, fRes, fItem, fSeen, fLog, fPolls>>

endVars == <<eQ, eEnd, eN, end_date, total, remaining, eRes, eItem, eLog,
             ePolls, exceeded>>

contVars == <<cClosed, window_size, r_len, n_acquisitions, reply, cN,
              cFrames, cDone, cAppended, cOut, cLast, cFresh>>

trigVars == <<trigger_event, event_time, outgoing, divisor, tRunning, tData,
              tEvents, tClock, tSplit, tFlush, tNonScalar, tTerminal, tOut,
              tEv>>

liveVars == <<end_time, live_remaining, lN, lDone, lClosed, lOut, lLast,
              lExceeded>>

dbVars == <<gen_map, user_map, dbLast>>

queryVars == <<q_len, q_remaining, results, qIn, qRet, qGot>>

vars == <<mergeVars, filterVars, endVars, contVars, trigVars, liveVars,
          dbVars, queryVars>>

\* The variables of the stages a specification leaves alone.
notMerge == <<filterVars, endVars, contVars, trigVars, liveVars, dbVars,
             queryVars>>
notFilter == <<mergeVars, endVars, contVars, trigVars, liveVars, dbVars,
             queryVars>>
notEnd == <<mergeVars, filterVars, contVars, trigVars, liveVars, dbVars,
             queryVars>>
notCont == <<mergeVars, filterVars, endVars, trigVars, liveVars, dbVars,
             queryVars>>
notTrig == <<mergeVars, filterVars, endVars, contVars, liveVars, dbVars,
             queryVars>>
notLive == <<mergeVars, filterVars, endVars, contVars, trigVars, dbVars,
             queryVars>>
notDb == <<mergeVars, filterVars, endVars, contVars, trigVars, liveVars,
             queryVars>>
notQuery == <<mergeVars, filterVars, endVars, contVars, trigVars, liveVars,
             dbVars>>

\* ------------------------------------------------------------ helpers

Last(s) == s[Len(s)]

\* The answer of a source to poll_next: Ready(Some) when a reply is queued,
\* Ready(None) when none is and the source has ended, Pending otherwise.
Answer(q, ended) ==
    IF q # <<>> THEN "Some" ELSE IF ended THEN "None" ELSE "Pending"

\* A reply (global::DataReply).
DataReply(ref, d) == [ref_id |-> ref, data |-> d]

\* A reading (global::DataInfo).
DataInfo(ts, res) == [timestamp |-> ts, result |-> res]

Max(a, b) == IF a >= b THEN a ELSE b

\* The timestamps of the readings of a sequence are in non-decreasing order.
SortedByTime(d) ==
    \A i, j \in 1 .. Len(d) : i < j => d[i].timestamp <= d[j].timestamp

\* The reading sequences a source puts into one reply: at most two scalar
\* readings, of increasing timestamps.
SortedBatches ==
    {<<>>}
    \cup {<<DataInfo(t, "Scalar")>> : t \in Times}
    \cup {<<DataInfo(t[1], "Scalar"), DataInfo(t[2], "Scalar")>> :
              t \in {u \in Times \X Times : u[1] < u[2]}}

\* slice::partition_point, for the slice whose i-th element satisfies the
\* predicate iff b[i]: the index of the first element that does not satisfy
\* it.  The slice must be partitioned (every element that satisfies the
\* predicate before every element that does not); on any other slice the
\* result is unspecified, any index of 0 .. len.
PartitionPoints(b) ==
    LET good == {k \in 0 .. Len(b) :
                    /\ \A i \in 1 .. k : b[i]
                    /\ \A i \in (k + 1) .. Len(b) : ~b[i]}
    IN IF good # {} THEN good ELSE 0 .. Len(b)

\* partition_point on a slice that is partitioned.
PartitionPoint(b) == CHOOSE k \in PartitionPoints(b) : TRUE

\* ------------------------------------------------------------ DataChannel

\* The merger's map has no entry for a channel until its first reply.
Absent == [mode |-> "Absent", data |-> <<>>]

\* DataChannel::new: buffering mode with an empty buffer.
DataChannelNew == [mode |-> "Buffering", data |-> <<>>]

FeedThrough == [mode |-> "FeedThrough", data |-> <<>>]

\* A merger whose channels start in feed-through mode.
OrInsert_feedthrough(pend, ref) ==
    IF pend[ref].mode = "Absent" THEN [pend EXCEPT ![ref] = FeedThrough]
    ELSE pend

\* pending.entry(ref_id).or_insert_with(DataChannel::new)
OrInsert(pend, ref) ==
    IF pend[ref].mode = "Absent" THEN [pend EXCEPT ![ref] = DataChannelNew]
    ELSE pend

\* A merger that forwards live readings while the channel is still buffering.
process_live_data_unbuffered(chan, live_data) ==
    [chan |-> chan, some |-> TRUE, data |-> live_data]

\* A channel that puts new live readings in front of its buffer.
process_live_data_prepending(chan, live_data) ==
    IF chan.mode = "FeedThrough"
    THEN [chan |-> chan, some |-> TRUE, data |-> live_data]
    ELSE [chan |-> [chan EXCEPT !.data = live_data \o @],
          some |-> FALSE, data |-> <<>>]

\* DataChannel::process_live_data: the channel afterwards and the Option
\* returned (some = FALSE is None).
process_live_data(chan, live_data) ==
    IF chan.mode = "FeedThrough"
    THEN [chan |-> chan, some |-> TRUE, data |-> live_data]
    ELSE [chan |-> [chan EXCEPT !.data = @ \o live_data],
          some |-> FALSE, data |-> <<>>]

\* A channel that hands out its buffer when the sentinel arrives and goes
\* on buffering.
process_archive_data_still_buffering(chan, archive_data) ==
    IF chan.mode = "FeedThrough"
    THEN [chan |-> chan, data |-> archive_data]
    ELSE IF archive_data = <<>>
         THEN [chan |-> chan, data |-> chan.data]
         ELSE [chan |-> chan, data |-> archive_data]

\* A channel that takes archived readings that come after the sentinel into
\* a new buffer.
process_archive_data_rebuffering(chan, archive_data) ==
    IF chan.mode = "FeedThrough"
    THEN [chan |-> [mode |-> "Buffering", data |-> archive_data],
          data |-> <<>>]
    ELSE IF archive_data = <<>>
         THEN [chan |-> FeedThrough, data |-> chan.data]
         ELSE [chan |-> chan, data |-> archive_data]

\* A channel that forgets its buffer when the sentinel arrives.
process_archive_data_dropping(chan, archive_data) ==
    IF chan.mode = "FeedThrough"
    THEN [chan |-> chan, data |-> archive_data]
    ELSE IF archive_data = <<>>
         THEN [chan |-> FeedThrough, data |-> <<>>]
         ELSE [chan |-> chan, data |-> archive_data]

\* DataChannel::process_archive_data: the channel afterwards and the vector
\* returned.
process_archive_data(chan, archive_data) ==
    IF chan.mode = "FeedThrough"
    THEN [chan |-> chan, data |-> archive_data]
    ELSE IF archive_data = <<>>
         THEN [chan |-> FeedThrough, data |-> chan.data]
         ELSE [chan |-> chan, data |-> archive_data]

\* ------------------------------------------------------------ DataMerge

\* A merger that signals completion as soon as one source has ended.
Completion_either(ad, ld) == IF ad \/ ld THEN "Done" ELSE "Pending"

\* The answer of poll_next when no source has a reply: Ready(None) when
\* both sources are done, Pending otherwise.
Completion(ad, ld) == IF ad /\ ld THEN "Done" ELSE "Pending"

\* DataMerge::poll_next, the whole loop of one call.  m holds the fields of
\* the merger and the state of its two sources; the result has res and item
\* set.  A source with a queued reply answers Ready(Some), an empty source
\* that has ended answers Ready(None), an empty open source answers Pending.
\* m.log takes the replies the call has got from the sources, m.polls the
\* answers of the sources to its polls.
RECURSIVE MergePoll(_)
MergePoll(m) ==
    IF ~m.live_done /\ m.liveQ # <<>>
    THEN LET r == Head(m.liveQ)
             buf == OrInsert(m.pending, r.ref_id)
             p == process_live_data(buf[r.ref_id], r.data)
             m1 == [m EXCEPT !.liveQ = Tail(@),
                             !.pending = [buf EXCEPT ![r.ref_id] = p.chan],
                             !.polls = Append(@, [src |-> "live",
                                                  ans |-> "Some"]),
                             !.log = Append(@,
                                 [src |-> "live", ref_id |-> r.ref_id,
                                  data |-> r.data, chan |-> buf[r.ref_id],
                                  out |-> p.data, some |-> p.some,
                                  next |-> p.chan,
                                  fresh |-> m.pending[r.ref_id] = Absent])]
         IN IF p.some /\ p.data # <<>>
            THEN [m1 EXCEPT !.res = "Ready",
                            !.item = <<DataReply(r.ref_id, p.data)>>]
            ELSE MergePoll(m1)
    ELSE LET m0 == IF m.live_done THEN m
                   ELSE IF m.liveEnd
                        THEN [m EXCEPT !.live_done = TRUE,
                                       !.polls = Append(@, [src |-> "live",
                                                            ans |-> "None"])]
                        ELSE [m EXCEPT !.polls = Append(@, [src |-> "live",
                                                            ans |-> "Pending"])]
         IN IF ~m0.archived_done /\ m0.archQ # <<>>
            THEN LET r == Head(m0.archQ)
                     buf == OrInsert(m0.pending, r.ref_id)
                     p == process_archive_data(buf[r.ref_id], r.data)
                     m1 == [m0 EXCEPT !.archQ = Tail(@),
                                      !.pending =
                                          [buf EXCEPT ![r.ref_id] = p.chan],
                                      !.polls = Append(@, [src |-> "archived",
                                                           ans |-> "Some"]),
                                      !.log = Append(@,
                                          [src |-> "archived",
                                           ref_id |-> r.ref_id,
                                           data |-> r.data,
                                           chan |-> buf[r.ref_id],
                                           out |-> p.data, some |-> TRUE,
                                           next |-> p.chan,
                                           fresh |-> m0.pending[r.ref_id]
                                                         = Absent])]
                 IN IF p.data = <<>>
                    THEN MergePoll(m1)
                    ELSE [m1 EXCEPT !.res = "Ready",
                                    !.item = <<DataReply(r.ref_id, p.data)>>]
            ELSE LET m2 == IF m0.archived_done THEN m0
                           ELSE IF m0.archEnd
                                THEN [m0 EXCEPT
                                        !.archived_done = TRUE,
                                        !.polls = Append(@,
                                            [src |-> "archived",
                                             ans |-> "None"])]
                                ELSE [m0 EXCEPT
                                        !.polls = Append(@,
                                            [src |-> "archived",
                                             ans |-> "Pending"])]
                 IN [m2 EXCEPT !.res = Completion(m2.archived_done,
                                                  m2.live_done),
                               !.item = <<>>]

\* The merger and its sources as the record MergePoll works on.
MergeState ==
    [liveQ |-> liveQ, archQ |-> archQ, liveEnd |-> liveEnd,
     archEnd |-> archEnd, live_done |-> live_done,
     archived_done |-> archived_done, pending |-> pending,
     res |-> mRes, item |-> mItem, log |-> <<>>, polls |-> <<>>]

\* One call of poll_next by the consumer of the merged stream.  A stream
\* that has answered Ready(None) is not polled again.
MPoll ==
    /\ mRes # "Done"
    /\ LET m == MergePoll(MergeState)
       IN /\ liveQ' = m.liveQ
          /\ archQ' = m.archQ
          /\ live_done' = m.live_done
          /\ archived_done' = m.archived_done
          /\ pending' = m.pending
          /\ mRes' = m.res
          /\ mItem' = m.item
          /\ mLog' = m.log
          /\ mPolls' = m.polls
          /\ mOut' = IF m.item = <<>> THEN mOut
                     ELSE [mOut EXCEPT ![m.item[1].ref_id] =
                                           @ \o m.item[1].data]
    /\ UNCHANGED <<archEnd, liveEnd, archN, liveN, archSent, liveSent,
                   archSeal>>
    /\ UNCHANGED notMerge

\* The readings a source stamps on its next reply for a channel: the k-th
\* reading a source delivers for a channel is sampled at instant k, and its
\* payload names the source (the merger never looks into a payload).
Stamp(sent, n, src) ==
    [i \in 1 .. n |-> DataInfo(Len(sent) + i, src)]

\* The archived source delivers a reply; an empty one is the end-of-archive
\* sentinel of the channel.
ArchArrive ==
    /\ ~archEnd
    /\ archN < MaxArch
    /\ \E c \in Chans, n \in BatchLens :
          LET d == Stamp(archSent[c], n, "A")
          IN /\ archQ' = Append(archQ, DataReply(c, d))
             /\ archSent' = [archSent EXCEPT ![c] = @ \o d]
             /\ archSeal' = [archSeal EXCEPT ![c] =
                                IF @ = "open"
                                THEN (IF n = 0 THEN "sealed" ELSE "open")
                                ELSE "violated"]
    /\ archN' = archN + 1
    /\ mLog' = <<>>
    /\ mPolls' = <<>>
    /\ UNCHANGED <<liveQ, archEnd, liveEnd, liveN, archived_done, live_done,
                   pending, mRes, mItem, liveSent, mOut>>
    /\ UNCHANGED notMerge

\* The live source delivers a reply.
LiveArrive ==
    /\ ~liveEnd
    /\ liveN < MaxLive
    /\ \E c \in Chans, n \in BatchLens :
          LET d == Stamp(liveSent[c], n, "L")
          IN /\ liveQ' = Append(liveQ, DataReply(c, d))
             /\ liveSent' = [liveSent EXCEPT ![c] = @ \o d]
    /\ liveN' = liveN + 1
    /\ mLog' = <<>>
    /\ mPolls' = <<>>
    /\ UNCHANGED <<archQ, archEnd, liveEnd, archN, archived_done, live_done,
                   pending, mRes, mItem, archSent, archSeal, mOut>>
    /\ UNCHANGED notMerge

\* The archived source ends (at once, when no start time was given).
ArchClose ==
    /\ ~archEnd
    /\ archEnd' = TRUE
    /\ mLog' = <<>>
    /\ mPolls' = <<>>
    /\ UNCHANGED <<archQ, liveQ, liveEnd, archN, liveN, archived_done,
                   live_done, pending, mRes, mItem, archSent, liveSent,
                   archSeal, mOut>>
    /\ UNCHANGED notMerge

\* The live source ends.
LiveClose ==
    /\ ~liveEnd
    /\ liveEnd' = TRUE
    /\ mLog' = <<>>
    /\ mPolls' = <<>>
    /\ UNCHANGED <<archQ, liveQ, archEnd, archN, liveN, archived_done,
                   live_done, pending, mRes, mItem, archSent, liveSent,
                   archSeal, mOut>>
    /\ UNCHANGED notMerge

\* One call of poll_next, as in MPoll, by a consumer that polls for ever:
\* what the merger emitted over the whole run is not recorded.
FairPoll ==
    /\ mRes # "Done"
    /\ LET m == MergePoll(MergeState)
       IN /\ liveQ' = m.liveQ
          /\ archQ' = m.archQ
          /\ live_done' = m.live_done
          /\ archived_done' = m.archived_done
          /\ pending' = m.pending
          /\ mRes' = m.res
          /\ mItem' = m.item
    /\ mLog' = <<>>
    /\ mPolls' = <<>>
    /\ UNCHANGED <<archEnd, liveEnd, archN, liveN, archSent, liveSent,
                   archSeal, mOut>>
    /\ UNCHANGED notMerge

\* A live source that never runs dry: as soon as its reply has been taken
\* it has the next one ready.  (A channel that is still buffering takes at
\* most MaxLive of them.)
LiveReady ==
    /\ ~liveEnd
    /\ liveQ = <<>>
    /\ \E c \in Chans :
          /\ Len(pending[c].data) < MaxLive
          /\ liveQ' = <<DataReply(c, <<DataInfo(1, "L")>>)>>
    /\ mLog' = <<>>
    /\ mPolls' = <<>>
    /\ UNCHANGED <<archQ, archEnd, liveEnd, archN, liveN, archived_done,
                   live_done, pending, mRes, mItem, archSent, liveSent,
                   archSeal, mOut>>
    /\ UNCHANGED notMerge

\* DataMerge::new with two sources that have delivered nothing yet.
MergeInit ==
    /\ archQ = <<>>
    /\ liveQ = <<>>
    /\ archEnd = FALSE
    /\ liveEnd = FALSE
    /\ archN = 0
    /\ liveN = 0
    /\ archived_done = FALSE
    /\ live_done = FALSE
    /\ pending = [c \in Chans |-> Absent]
    /\ mRes = "Init"
    /\ mItem = <<>>
    /\ archSent = [c \in Chans |-> <<>>]
    /\ liveSent = [c \in Chans |-> <<>>]
    /\ archSeal = [c \in Chans |-> "open"]
    /\ mOut = [c \in Chans |-> <<>>]
    /\ mLog = <<>>
    /\ mPolls = <<>>

MergeNext ==
    \/ MPoll
    \/ ArchArrive
    \/ LiveArrive
    \/ ArchClose
    \/ LiveClose

\* The merger between a live source that never runs dry and a consumer
\* that polls for ever.
MergeFairNext ==
    \/ FairPoll
    \/ LiveReady
    \/ ArchArrive
    \/ ArchClose

\* ------------------------------------------------------------ FilterDupes

\* The high-water mark of a channel that has no entry yet:
\* latest.entry(ref_id).or_insert(0.0).
LatestInit == 0

\* A filter that takes the new mark from the first reading of the reply.
FilterReply_firstmark(mark, data) ==
    LET start_index == PartitionPoint(
            [i \in 1 .. Len(data) |-> data[i].timestamp <= mark])
    IN [latest |-> Max(mark, data[1].timestamp),
        data |-> SubSeq(data, start_index + 1, Len(data))]

\* A filter that keeps the readings at the mark itself.
FilterReply_strict(mark, data) ==
    LET start_index == PartitionPoint(
            [i \in 1 .. Len(data) |-> data[i].timestamp < mark])
    IN [latest |-> Max(mark, Last(data).timestamp),
        data |-> SubSeq(data, start_index + 1, Len(data))]

\* A filter that sets the mark to the last reading of the reply, whatever
\* the mark was.
FilterReply_overwrite(mark, data) ==
    LET start_index == PartitionPoint(
            [i \in 1 .. Len(data) |-> data[i].timestamp <= mark])
    IN [latest |-> Last(data).timestamp,
        data |-> SubSeq(data, start_index + 1, Len(data))]

\* What FilterDupes::poll_next does with one non-empty reply of a channel
\* whose mark is `mark`: the new mark, taken from the last reading before
\* anything is drained, and the readings that are left.
FilterReply(mark, data) ==
    LET start_index == PartitionPoint(
            [i \in 1 .. Len(data) |-> data[i].timestamp <= mark])
    IN [latest |-> Max(mark, Last(data).timestamp),
        data |-> SubSeq(data, start_index + 1, Len(data))]

\* A filter that forwards a reply whose readings have all been drained.
RECURSIVE FilterPoll_forward_drained(_)
FilterPoll_forward_drained(f) ==
    IF f.q # <<>>
    THEN LET v == Head(f.q)
             f1 == [f EXCEPT !.q = Tail(@)]
         IN IF v.data = <<>>
            THEN FilterPoll_forward_drained(f1)
            ELSE LET r == FilterReply(f.latest[v.ref_id], v.data)
                 IN [f1 EXCEPT
                       !.latest = [@ EXCEPT ![v.ref_id] = r.latest],
                       !.seen = [@ EXCEPT ![v.ref_id] =
                           @ \cup {r.data[i].timestamp :
                                      i \in 1 .. Len(r.data)}],
                       !.log = Append(@,
                           [ref_id |-> v.ref_id, data |-> v.data,
                            sent |-> r.data, mark |-> r.latest,
                            prior |-> f.seen[v.ref_id],
                            before |-> f.latest,
                            after |-> [f.latest EXCEPT
                                          ![v.ref_id] = r.latest]]),
                       !.res = "Ready",
                       !.item = <<DataReply(v.ref_id, r.data)>>]
    ELSE [f EXCEPT !.res = IF f.upEnd THEN "Done" ELSE "Pending",
                   !.item = <<>>]

\* A filter that keeps one mark for all channels.
RECURSIVE FilterPoll_shared_mark(_)
FilterPoll_shared_mark(f) ==
    IF f.q # <<>>
    THEN LET v == Head(f.q)
             f1 == [f EXCEPT !.q = Tail(@)]
         IN IF v.data = <<>>
            THEN FilterPoll_shared_mark(f1)
            ELSE LET r == FilterReply(f.latest[v.ref_id], v.data)
                     f2 == [f1 EXCEPT
                              !.latest = [c \in Chans |-> r.latest],
                              !.seen = [@ EXCEPT ![v.ref_id] =
                                  @ \cup {r.data[i].timestamp :
                                             i \in 1 .. Len(r.data)}],
                              !.log = Append(@,
                                  [ref_id |-> v.ref_id, data |-> v.data,
                                   sent |-> r.data, mark |-> r.latest,
                                   prior |-> f.seen[v.ref_id],
                                   before |-> f.latest,
                                   after |-> [c \in Chans |-> r.latest]])]
                 IN IF r.data = <<>>
                    THEN FilterPoll_shared_mark(f2)
                    ELSE [f2 EXCEPT !.res = "Ready",
                                    !.item = <<DataReply(v.ref_id, r.data)>>]
    ELSE [f EXCEPT !.res = IF f.upEnd THEN "Done" ELSE "Pending",
                   !.item = <<>>]

\* A filter that answers Pending when it has dropped the whole of a reply.
RECURSIVE FilterPoll_pending_on_drop(_)
FilterPoll_pending_on_drop(f) ==
    IF f.q # <<>>
    THEN LET v == Head(f.q)
             f1 == [f EXCEPT !.q = Tail(@), !.polls = Append(@, "Some")]
         IN IF v.data = <<>>
            THEN FilterPoll_pending_on_drop(f1)
            ELSE LET r == FilterReply(f.latest[v.ref_id], v.data)
                     f2 == [f1 EXCEPT
                              !.latest = [@ EXCEPT ![v.ref_id] = r.latest],
                              !.seen = [@ EXCEPT ![v.ref_id] =
                                  @ \cup {r.data[i].timestamp :
                                             i \in 1 .. Len(r.data)}],
                              !.log = Append(@,
                                  [ref_id |-> v.ref_id, data |-> v.data,
                                   sent |-> r.data, mark |-> r.latest,
                                   prior |-> f.seen[v.ref_id],
                                   before |-> f.latest,
                                   after |-> [f.latest EXCEPT
                                                 ![v.ref_id] = r.latest]])]
                 IN IF r.data = <<>>
                    THEN [f2 EXCEPT !.res = "Pending", !.item = <<>>]
                    ELSE [f2 EXCEPT !.res = "Ready",
                                    !.item = <<DataReply(v.ref_id, r.data)>>]
    ELSE [f EXCEPT !.res = IF f.upEnd THEN "Done" ELSE "Pending",
                   !.item = <<>>,
                   !.polls = Append(@, Answer(f.q, f.upEnd))]

\* FilterDupes::poll_next, the whole loop of one call.  f.polls takes the
\* answers of upstream to the polls of the call.
RECURSIVE FilterPoll(_)
FilterPoll(f) ==
    IF f.q # <<>>
    THEN LET v == Head(f.q)
             f1 == [f EXCEPT !.q = Tail(@), !.polls = Append(@, "Some")]
         IN IF v.data = <<>>
            THEN FilterPoll(f1)
            ELSE LET r == FilterReply(f.latest[v.ref_id], v.data)
                     f2 == [f1 EXCEPT
                              !.latest = [@ EXCEPT ![v.ref_id] = r.latest],
                              !.seen = [@ EXCEPT ![v.ref_id] =
                                  @ \cup {r.data[i].timestamp :
                                             i \in 1 .. Len(r.data)}],
                              !.log = Append(@,
                                  [ref_id |-> v.ref_id, data |-> v.data,
                                   sent |-> r.data, mark |-> r.latest,
                                   prior |-> f.seen[v.ref_id],
                                   before |-> f.latest,
                                   after |-> [f.latest EXCEPT
                                                 ![v.ref_id] = r.latest]])]
                 IN IF r.data = <<>>
                    THEN FilterPoll(f2)
                    ELSE [f2 EXCEPT !.res = "Ready",
                                    !.item = <<DataReply(v.ref_id, r.data)>>]
    ELSE [f EXCEPT !.res = IF f.upEnd THEN "Done" ELSE "Pending",
                   !.item = <<>>,
                   !.polls = Append(@, Answer(f.q, f.upEnd))]

\* One call of poll_next by the consumer of the filtered stream.
FPoll ==
    /\ fRes # "Done"
    /\ LET f == FilterPoll(
                  [q |-> fQ, upEnd |-> fEnd, latest |-> latest,
                   seen |-> fSeen, res |-> fRes, item |-> fItem,
                   log |-> IF fLog = <<>> THEN <<>> ELSE <<Last(fLog)>>,
                   polls |-> <<>>])
       IN /\ fQ' = f.q
          /\ latest' = f.latest
          /\ fSeen' = f.seen
          /\ fRes' = f.res
          /\ fItem' = f.item
          /\ fLog' = f.log
          /\ fPolls' = f.polls
    /\ UNCHANGED <<fEnd, fN>>
    /\ UNCHANGED notFilter

\* Upstream delivers a reply whose readings are sorted by timestamp.
FArrive ==
    /\ ~fEnd
    /\ fN < MaxDedupeIn
    /\ \E c \in Chans, d \in SortedBatches : fQ' = Append(fQ, DataReply(c, d))
    /\ fN' = fN + 1
    /\ UNCHANGED <<fEnd, latest, fRes, fItem, fSeen, fLog, fPolls>>
    /\ UNCHANGED notFilter

\* Upstream ends.
FClose ==
    /\ ~fEnd
    /\ fEnd' = TRUE
    /\ UNCHANGED <<fQ, fN, latest, fRes, fItem, fSeen, fLog, fPolls>>
    /\ UNCHANGED notFilter

\* FilterDupes::new.
FilterInit ==
    /\ fQ = <<>>
    /\ fEnd = FALSE
    /\ fN = 0
    /\ latest = [c \in Chans |-> LatestInit]
    /\ fRes = "Init"
    /\ fItem = <<>>
    /\ fSeen = [c \in Chans |-> {}]
    /\ fLog = <<>>
    /\ fPolls = <<>>

FilterNext ==
    \/ FPoll
    \/ FArrive
    \/ FClose

\* ------------------------------------------------------------ EndOnDate

\* A terminator that keeps the readings beyond the end date.
EndReply_tail(end, data) ==
    LET start_index == PartitionPoint(
            [i \in 1 .. Len(data) |-> data[i].timestamp <= end])
    IN SubSeq(data, start_index + 1, Len(data))

\* What EndOnDate::poll_next keeps of the readings of one reply:
\* v.data.drain(start_index..).
EndReply(end, data) ==
    LET start_index == PartitionPoint(
            [i \in 1 .. Len(data) |-> data[i].timestamp <= end])
    IN SubSeq(data, 1, start_index)

\* A terminator that takes a channel out of the active set as soon as a
\* reply for it is cut.
RECURSIVE EndPoll_remove_on_cut(_)
EndPoll_remove_on_cut(e) ==
    IF e.q # <<>>
    THEN LET v == Head(e.q)
             kept == EndReply(e.end_date, v.data)
             rem == IF kept # v.data \/ kept = <<>>
                    THEN e.remaining \ {v.ref_id} ELSE e.remaining
             e1 == [e EXCEPT
                      !.q = Tail(@),
                      !.remaining = rem,
                      !.log = Append(@, [ref_id |-> v.ref_id, data |-> v.data,
                                         sent |-> kept,
                                         rem0 |-> e.remaining, rem1 |-> rem]),
                      !.exceeded =
                          IF \E i \in 1 .. Len(v.data) :
                                 v.data[i].timestamp > e.end_date
                          THEN @ \cup {v.ref_id} ELSE @]
         IN IF kept = <<>>
            THEN IF rem = {}
                 THEN [e1 EXCEPT !.res = "Done", !.item = <<>>]
                 ELSE EndPoll_remove_on_cut(e1)
            ELSE [e1 EXCEPT !.res = "Ready",
                            !.item = <<DataReply(v.ref_id, kept)>>]
    ELSE [e EXCEPT !.res = IF e.upEnd THEN "Done" ELSE "Pending",
                   !.item = <<>>]

\* EndOnDate::poll_next, the whole loop of one call.  e.log takes the
\* replies the call has got from upstream, with what was kept of each and
\* the active set before and after it.
RECURSIVE EndPoll(_)
EndPoll(e) ==
    IF e.q # <<>>
    THEN LET v == Head(e.q)
             kept == EndReply(e.end_date, v.data)
             rem == IF kept = <<>> THEN e.remaining \ {v.ref_id}
                    ELSE e.remaining
             e1 == [e EXCEPT
                      !.q = Tail(@),
                      !.polls = Append(@, "Some"),
                      !.remaining = rem,
                      !.log = Append(@, [ref_id |-> v.ref_id, data |-> v.data,
                                         sent |-> kept,
                                         rem0 |-> e.remaining, rem1 |-> rem]),
                      !.exceeded =
                          IF \E i \in 1 .. Len(v.data) :
                                 v.data[i].timestamp > e.end_date
                          THEN @ \cup {v.ref_id} ELSE @]
         IN IF kept = <<>>
            THEN IF rem = {}
                 THEN [e1 EXCEPT !.res = "Done", !.item = <<>>]
                 ELSE EndPoll(e1)
            ELSE [e1 EXCEPT !.res = "Ready",
                            !.item = <<DataReply(v.ref_id, kept)>>]
    ELSE [e EXCEPT !.res = IF e.upEnd THEN "Done" ELSE "Pending",
                   !.item = <<>>,
                   !.polls = Append(@, Answer(e.q, e.upEnd))]

\* A pass-through that skips the empty replies.
RECURSIVE PassPoll_skip_empty(_)
PassPoll_skip_empty(e) ==
    IF e.q # <<>>
    THEN LET v == Head(e.q)
             e1 == [e EXCEPT
                      !.q = Tail(@),
                      !.log = Append(@, [ref_id |-> v.ref_id, data |-> v.data,
                                         sent |-> v.data])]
         IN IF v.data = <<>> THEN PassPoll_skip_empty(e1)
            ELSE [e1 EXCEPT !.res = "Ready", !.item = <<v>>]
    ELSE [e EXCEPT !.res = IF e.upEnd THEN "Done" ELSE "Pending",
                   !.item = <<>>]

\* poll_next of the stream end_stream_at returns for end_date = None: the
\* stream s it was given, so a poll is a poll of s.
PassPoll(e) ==
    IF e.q # <<>>
    THEN LET v == Head(e.q)
         IN [e EXCEPT !.q = Tail(@),
                      !.polls = Append(@, "Some"),
                      !.log = Append(@, [ref_id |-> v.ref_id, data |-> v.data,
                                         sent |-> v.data]),
                      !.res = "Ready",
                      !.item = <<v>>]
    ELSE [e EXCEPT !.res = IF e.upEnd THEN "Done" ELSE "Pending",
                   !.item = <<>>,
                   !.polls = Append(@, Answer(e.q, e.upEnd))]

\* poll_next of the stream end_stream_at(s, total, end_date) returns.
end_stream_at(e) ==
    IF e.end_date = <<>> THEN PassPoll(e)
    ELSE EndPoll([e EXCEPT !.end_date = @[1]])

\* One call of poll_next by the consumer of the terminated stream.
EPoll ==
    /\ eRes # "Done"
    /\ LET e == end_stream_at(
                  [q |-> eQ, upEnd |-> eEnd, end_date |-> end_date,
                   remaining |-> remaining, res |-> eRes, item |-> eItem,
                   log |-> <<>>, exceeded |-> exceeded, polls |-> <<>>])
       IN /\ eQ' = e.q
          /\ remaining' = e.remaining
          /\ eRes' = e.res
          /\ eItem' = e.item
          /\ eLog' = e.log
          /\ ePolls' = e.polls
          /\ exceeded' = e.exceeded
    /\ UNCHANGED <<eEnd, eN, end_date, total>>
    /\ UNCHANGED notEnd

\* Upstream delivers a reply for a device of the request; its readings are
\* sorted by timestamp.
EArrive ==
    /\ ~eEnd
    /\ eN < MaxEndIn
    /\ \E c \in 0 .. (total - 1), d \in SortedBatches :
          eQ' = Append(eQ, DataReply(c, d))
    /\ eN' = eN + 1
    /\ UNCHANGED <<eEnd, end_date, total, remaining, eRes, eItem, eLog,
                   ePolls, exceeded>>
    /\ UNCHANGED notEnd

\* Upstream ends.
EClose ==
    /\ ~eEnd
    /\ eEnd' = TRUE
    /\ UNCHANGED <<eQ, eN, end_date, total, remaining, eRes, eItem, eLog,
                   ePolls, exceeded>>
    /\ UNCHANGED notEnd

\* end_stream_at(s, total, end_date) for a request of one device or of
\* two, with and without an end date: EndOnDate::new(s, ts, total), or s
\* itself.
EndInit ==
    /\ eQ = <<>>
    /\ eEnd = FALSE
    /\ eN = 0
    /\ end_date \in {<<>>} \cup {<<ts>> : ts \in EndDates}
    /\ total \in 1 .. Cardinality(Chans)
    /\ remaining = 0 .. (total - 1)
    /\ eRes = "Init"
    /\ eItem = <<>>
    /\ eLog = <<>>
    /\ ePolls = <<>>
    /\ exceeded = {}

\* The stage at rest in the specifications of the other stages.
EndIdle == EndInit /\ end_date = <<>> /\ total = Cardinality(Chans)

EndNext ==
    \/ EPoll
    \/ EArrive
    \/ EClose

\* ------------------------------------------------ readings and points

\* global::DataType: the variants of the value of a reading.
Scalar(y) == [type |-> "Scalar", scalar_value |-> y]
ScalarArray(a) == [type |-> "ScalarArray", scalar_array_value |-> a]
StatusReply(sts) == [type |-> "StatusReply", status |-> sts]
Text == [type |-> "Text"]

\* types::PlotDataPoint.
PlotDataPoint(t, x, y) == [t |-> t, x |-> x, y |-> y]

\* types::PlotChannelData as handle_continuous and handle_triggered build it.
PlotChannelData(sts, d) ==
    [channel_rate |-> "Unknown", channel_units |-> "V",
     channel_status |-> sts, channel_data |-> d]

\* An Option: None and Some(v).
None == <<>>
Some(v) == <<v>>

\* ------------------------------------------------------ handle_continuous

\* const DEF_MAX_WAVEFORM.
DEF_MAX_WAVEFORM == 500

\* usize::div_ceil.
DivCeil(a, b) == (a + b - 1) \div b

\* The stride of to_plot_data for an array reading.
Step(len, ws) ==
    IF ws # None /\ ws[1] > 0 /\ ws[1] <= len THEN DivCeil(len, ws[1]) ELSE 1

\* a.iter().enumerate().step_by(step): the points of every step-th element.
RECURSIVE Decimate(_, _, _, _)
Decimate(a, ts, step, idx) ==
    IF idx >= Len(a) THEN <<>>
    ELSE <<PlotDataPoint(ts, idx, a[idx + 1])>>
             \o Decimate(a, ts, step, idx + step)

\* to_plot_data from the i-th reading on, `result` holding the points so far.
RECURSIVE ToPlotFrom(_, _, _, _, _)
ToPlotFrom(len, ws, data, i, result) ==
    IF i > Len(data) THEN [sts |-> 0, data |-> result]
    ELSE LET ts == data[i].timestamp
             res == data[i].result
         IN CASE res.type = "Scalar" ->
                   ToPlotFrom(len, ws, data, i + 1,
                       Append(result, PlotDataPoint(ts, ts, res.scalar_value)))
              [] res.type = "ScalarArray" ->
                   ToPlotFrom(len, ws, data, i + 1,
                       result \o Decimate(res.scalar_array_value, ts,
                                          Step(len, ws), 0))
              [] res.type = "StatusReply" ->
                   [sts |-> res.status, data |-> <<>>]
              [] OTHER -> [sts |-> -1, data |-> <<>>]

\* to_plot_data.
to_plot_data(len, ws, data) == ToPlotFrom(len, ws, data, 1, <<>>)

Min(a, b) == IF a <= b THEN a ELSE b

\* A windower that emits as soon as some channel has a status or a point.
FrameReady_any(frame) ==
    \E c \in Chans :
        frame[c].channel_status # 0 \/ frame[c].channel_data # <<>>

\* The test of handle_continuous: data (or status) for every channel.
FrameReady(frame) ==
    \A c \in Chans :
        frame[c].channel_status # 0 \/ frame[c].channel_data # <<>>

\* A windower that goes on with the frame it has just emitted.
Reseed_keep_points(frame) == frame

\* The frame handle_continuous starts with, and the one it goes on with
\* after a frame was emitted: the status of every channel is kept, the
\* points are not.  (stuff_fake_data adds points for the test waveforms
\* only; start_plot has replaced their names in drfs before it calls
\* handle_continuous, so it adds none.)
Reseed(frame) ==
    [c \in Chans |->
        [channel_rate |-> "Unknown",
         channel_units |-> frame[c].channel_units,
         channel_status |-> frame[c].channel_status,
         channel_data |-> <<>>]]

\* A closure that sets the status of the channel to that of the reply.
ContStep_last_status(frame, len, ws, e) ==
    LET p == to_plot_data(len, ws, e.data)
        app == [frame EXCEPT
                   ![e.ref_id].channel_data = @ \o p.data,
                   ![e.ref_id].channel_status = p.sts]
    IN IF FrameReady(app)
       THEN [plot |-> p, appended |-> app, reply |-> Reseed(app),
             out |-> Some(app)]
       ELSE [plot |-> p, appended |-> app, reply |-> app, out |-> None]

\* The closure handle_continuous maps over the merged stream, for the
\* reply e: what to_plot_data made of the reply, the frame after the
\* append, the frame to go on with and the frame emitted (None when none).
ContStep(frame, len, ws, e) ==
    LET p == to_plot_data(len, ws, e.data)
        app == [frame EXCEPT
                   ![e.ref_id].channel_data = @ \o p.data,
                   ![e.ref_id].channel_status = Min(@, p.sts)]
    IN IF FrameReady(app)
       THEN [plot |-> p, appended |-> app, reply |-> Reseed(app),
             out |-> Some(app)]
       ELSE [plot |-> p, appended |-> app, reply |-> app, out |-> None]

\* A limit that lets one frame more through.
TakeLimit_one_more(n) == IF n = None THEN None ELSE Some(Max(n[1], 1) + 1)

\* The frames s.take(n) lets through, n = n_acquisitions.max(1).
TakeLimit(n) == IF n = None THEN None ELSE Some(Max(n[1], 1))

\* The reading sequences of the replies that reach the windower (the merger
\* forwards no empty reply); all readings of a reply carry instant ts.
ContBatches(ts) ==
    { <<DataInfo(ts, Scalar(5))>>,
      <<DataInfo(ts, Scalar(5)), DataInfo(ts, Scalar(5))>>,
      <<DataInfo(ts, ScalarArray(<<7, 8, 9>>))>>,
      <<DataInfo(ts, StatusReply(-1))>>,
      <<DataInfo(ts, StatusReply(1))>>,
      <<DataInfo(ts, Scalar(5)), DataInfo(ts, StatusReply(-1))>>,
      <<DataInfo(ts, Text)>> }

\* The merged stream delivers a reply and the closure runs on it.
CReply ==
    /\ ~cDone
    /\ cN < MaxContIn
    /\ \E c \in Chans, d \in ContBatches(cN + 1) :
          LET st == ContStep(reply, r_len, window_size, DataReply(c, d))
              lim == TakeLimit(n_acquisitions)
              n == IF st.out = None THEN cFrames ELSE cFrames + 1
          IN /\ reply' = st.reply
             /\ cAppended' = Some(st.appended)
             /\ cOut' = st.out
             /\ cLast' = Some([ref_id |-> c, data |-> d,
                               sts |-> st.plot.sts,
                               points |-> st.plot.data,
                               prior |-> reply[c].channel_status])
             /\ cFresh' = IF cOut # None THEN {c} ELSE cFresh \cup {c}
             /\ cFrames' = n
             /\ cDone' = (lim # None /\ n >= lim[1])
    /\ cN' = cN + 1
    /\ UNCHANGED <<window_size, r_len, n_acquisitions, cClosed>>
    /\ UNCHANGED notCont

\* The merged stream ends.
CClose ==
    /\ ~cDone
    /\ cDone' = TRUE
    /\ cClosed' = TRUE
    /\ cAppended' = None
    /\ cOut' = None
    /\ cLast' = None
    /\ UNCHANGED <<window_size, r_len, n_acquisitions, reply, cN, cFrames,
                   cFresh>>
    /\ UNCHANGED notCont

\* handle_continuous up to the first reply, for a caller's choice of the
\* point budget, of x_max and of the frame limit.
ContInit ==
    /\ window_size \in {None, Some(2)}
    /\ r_len \in {DEF_MAX_WAVEFORM, 3, 1}
    /\ n_acquisitions \in {None, Some(0), Some(2)}
    /\ reply = [c \in Chans |-> PlotChannelData(0, <<>>)]
    /\ cN = 0
    /\ cFrames = 0
    /\ cDone = FALSE
    /\ cClosed = FALSE
    /\ cAppended = None
    /\ cOut = None
    /\ cLast = None
    /\ cFresh = {}

\* The stage at rest in the specifications of the other stages.
ContIdle ==
    /\ window_size = None
    /\ r_len = DEF_MAX_WAVEFORM
    /\ n_acquisitions = None
    /\ reply = [c \in Chans |-> PlotChannelData(0, <<>>)]
    /\ cN = 0
    /\ cFrames = 0
    /\ cDone = FALSE
    /\ cClosed = FALSE
    /\ cAppended = None
    /\ cOut = None
    /\ cLast = None
    /\ cFresh = {}

ContNext ==
    \/ CReply
    \/ CClose

\* ------------------------------------------------------- handle_triggered

\* The 15 Hz clock event, $0F.
HEARTBEAT == 15

\* The heartbeat divisor counts modulo 5.
DIVISOR_CYCLE == 5

\* The instants of the readings and of the clock events of a triggered plot.
TrigTimes == 1 .. 3

\* v.x < ts for every point of a channel: what flush and prep_outgoing hand
\* to partition_point.
Before(points, ts) == [i \in 1 .. Len(points) |-> points[i].x < ts]

\* flush, idx[c] being the partition point of channel c.
flush(buf, idx) ==
    [c \in Chans |-> SubSeq(buf[c], idx[c] + 1, Len(buf[c]))]

\* A split that rebases the points it keeps for later and not the ones it
\* finalizes.
prep_outgoing_rebase_rest(out, ev_ts, idx) ==
    [out |-> [c \in Chans |-> SubSeq(out[c], 1, idx[c])],
     remaining |->
         [c \in Chans |->
             [i \in 1 .. (Len(out[c]) - idx[c]) |->
                 PlotDataPoint(out[c][idx[c] + i].x,
                               out[c][idx[c] + i].x - ev_ts,
                               out[c][idx[c] + i].y)]]]

\* prep_outgoing, idx[c] being the partition point of channel c: the points
\* from idx[c] on go to `remaining` as they are, the points before it stay
\* in `out` with t set to x and ev_ts taken off x.
prep_outgoing(out, ev_ts, idx) ==
    [out |->
         [c \in Chans |->
             [i \in 1 .. idx[c] |->
                 PlotDataPoint(out[c][i].x, out[c][i].x - ev_ts,
                               out[c][i].y)]],
     remaining |->
         [c \in Chans |-> SubSeq(out[c], idx[c] + 1, Len(out[c]))]]

\* The scalar readings of a reply up to its first non-scalar reading, as
\* points: the for loop of the data arm, which `break` leaves.
RECURSIVE ScalarPoints(_, _)
ScalarPoints(data, i) ==
    IF i > Len(data) \/ data[i].result.type # "Scalar" THEN <<>>
    ELSE <<PlotDataPoint(data[i].timestamp, data[i].timestamp,
                         data[i].result.scalar_value)>>
             \o ScalarPoints(data, i + 1)

\* A reply holds a reading that is not a scalar.
HasNonScalar(data) ==
    \E i \in 1 .. Len(data) : data[i].result.type # "Scalar"

\* The frame handle_triggered yields: a clone of `template` with the points
\* of its channels.
TrigFrame(data) == [plot_id |-> "demo", timestamp |-> "now", data |-> data]

\* A stream of frames that ends with an error event.
Terminal_error(running) == IF running THEN "open" ELSE "error"

\* What the consumer of the frames is told once the loop is left: the
\* stream! block ends, and a stream of PlotReplyData items has no item for
\* an error, so it just ends.
Terminal(running) == IF running THEN "open" ELSE "end"

\* `if triggered || divisor == 0`: the clock event splits.
MustSplit(triggered, div) == triggered \/ div = 0

\* A windower that yields the finalized portion even when it is empty.
Yield_always(out) == Some(TrigFrame(out))

\* `if outgoing.data.iter().any(|v| !v.channel_data.is_empty())
\* { yield outgoing; }`: the frame yielded, None when none.
Yield(out) ==
    IF \E c \in Chans : out[c] # <<>> THEN Some(TrigFrame(out)) ELSE None

\* A windower that takes every clock event for its trigger.
NextEventTime_any(triggered, et, ts) == Some(ts)

\* `if triggered { event_time = Some(ts); }`.
NextEventTime(triggered, et, ts) == IF triggered THEN Some(ts) ELSE et

\* A divisor that counts every clock event.
NextDivisor_every_event(ev, div) == (div + 1) % DIVISOR_CYCLE

\* `if ei.event == 0x0f { divisor = (divisor + 1) % 5; }`.
NextDivisor(ev, div) ==
    IF ev = HEARTBEAT THEN (div + 1) % DIVISOR_CYCLE ELSE div

\* The reading sequences of the replies of the data stream.
TrigBatches ==
    {<<DataInfo(t, Scalar(5))>> : t \in TrigTimes}
    \cup {<<DataInfo(2, Scalar(5)), DataInfo(2, Text), DataInfo(2, Scalar(5))>>}

\* The data arm of the select: a reply of the data stream.
TData ==
    /\ tRunning
    /\ tData < MaxTrigData
    /\ \E c \in Chans, d \in TrigBatches :
          /\ outgoing' = [outgoing EXCEPT ![c] = @ \o ScalarPoints(d, 1)]
          /\ tNonScalar' = (tNonScalar \/ HasNonScalar(d))
    /\ tData' = tData + 1
    /\ tSplit' = None
    /\ tFlush' = None
    /\ tOut' = None
    /\ tEv' = None
    /\ UNCHANGED <<trigger_event, event_time, divisor, tRunning, tEvents,
                   tClock, tTerminal>>
    /\ UNCHANGED notTrig

\* The data arm of the select when the data stream has ended.
TDataClosed ==
    /\ tRunning
    /\ tRunning' = FALSE
    /\ tTerminal' = Terminal(FALSE)
    /\ tSplit' = None
    /\ tFlush' = None
    /\ tOut' = None
    /\ tEv' = None
    /\ UNCHANGED <<trigger_event, event_time, outgoing, divisor, tData,
                   tEvents, tClock, tNonScalar>>
    /\ UNCHANGED notTrig

\* The clock arm of the select: an event of the clock stream, one of
\* `limit` at most.  Clock events arrive in the order of their timestamps.
ClockArm(limit) ==
    /\ tRunning
    /\ tEvents < limit
    /\ \E ev \in {HEARTBEAT, trigger_event}, ts \in TrigTimes :
          LET triggered == (ev = trigger_event)
          IN /\ ts >= tClock
             /\ tClock' = ts
             /\ IF event_time # None
                THEN IF MustSplit(triggered, divisor)
                     THEN \E idx \in [Chans -> 0 .. MaxTrigData] :
                             /\ \A c \in Chans :
                                    idx[c] \in PartitionPoints(
                                                   Before(outgoing[c], ts))
                             /\ LET po == prep_outgoing(outgoing,
                                                        event_time[1], idx)
                                IN /\ tOut' = Yield(po.out)
                                   /\ outgoing' = po.remaining
                                   /\ tSplit' = Some(
                                         [pre |-> outgoing,
                                          ev_ts |-> event_time[1],
                                          ts |-> ts,
                                          out |-> po.out,
                                          remaining |-> po.remaining])
                             /\ tFlush' = None
                     ELSE /\ outgoing' = outgoing
                          /\ tSplit' = None
                          /\ tFlush' = None
                          /\ tOut' = None
                ELSE /\ \E idx \in [Chans -> 0 .. MaxTrigData] :
                            /\ \A c \in Chans :
                                   idx[c] \in PartitionPoints(
                                                  Before(outgoing[c], ts))
                            /\ outgoing' = flush(outgoing, idx)
                            /\ tFlush' = Some(
                                   [pre |-> outgoing, ts |-> ts,
                                    post |-> flush(outgoing, idx)])
                     /\ tSplit' = None
                     /\ tOut' = None
             /\ event_time' = NextEventTime(triggered, event_time, ts)
             /\ divisor' = NextDivisor(ev, divisor)
             /\ tEv' = Some(ev)
    /\ tEvents' = tEvents + 1
    /\ UNCHANGED <<trigger_event, tRunning, tData, tNonScalar, tTerminal>>
    /\ UNCHANGED notTrig

\* A clock event of a plot that is receiving data.
TClock == ClockArm(MaxTrigEvents)

\* A clock event of a plot whose data stream has delivered nothing.
TBeat == tData = 0 /\ ClockArm(MaxBeats)

\* The clock arm of the select when the clock stream has ended or failed.
TClockFailed ==
    /\ tRunning
    /\ tRunning' = FALSE
    /\ tTerminal' = Terminal(FALSE)
    /\ tSplit' = None
    /\ tFlush' = None
    /\ tOut' = None
    /\ tEv' = None
    /\ UNCHANGED <<trigger_event, event_time, outgoing, divisor, tData,
                   tEvents, tClock, tNonScalar>>
    /\ UNCHANGED notTrig

\* handle_triggered up to the first turn of its loop, for a trigger that is
\* the heartbeat itself or another event.
TrigInit ==
    /\ trigger_event \in {2, HEARTBEAT}
    /\ event_time = None
    /\ outgoing = [c \in Chans |-> <<>>]
    /\ divisor = 0
    /\ tRunning = TRUE
    /\ tData = 0
    /\ tEvents = 0
    /\ tClock = 0
    /\ tSplit = None
    /\ tFlush = None
    /\ tNonScalar = FALSE
    /\ tTerminal = "open"
    /\ tOut = None
    /\ tEv = None

\* The stage at rest in the specifications of the other stages.
TrigIdle ==
    /\ trigger_event = HEARTBEAT
    /\ event_time = None
    /\ outgoing = [c \in Chans |-> <<>>]
    /\ divisor = 0
    /\ tRunning = TRUE
    /\ tData = 0
    /\ tEvents = 0
    /\ tClock = 0
    /\ tSplit = None
    /\ tFlush = None
    /\ tNonScalar = FALSE
    /\ tTerminal = "open"
    /\ tOut = None
    /\ tEv = None

TrigNext ==
    \/ TData
    \/ TDataClosed
    \/ TClock
    \/ TClockFailed

\* The loop of handle_triggered while the data stream stays silent.
BeatNext ==
    \/ TBeat
    \/ TClockFailed

\* -------------------------------------------------------------- live_data

\* The instants of the readings DPM delivers.
DpmTimes == 1 .. 3

\* The end times a request for live data asks for (at or after `now`).
EndTimes == {2}

\* A daq::Reading: its timestamp is an Option.
Reading(ts) == [timestamp |-> Some(ts), data |-> Scalar(5)]

\* The items of the DPM stream: Ok(ReadingReply) with readings for an index
\* of the request (one reading, or two), Ok(ReadingReply) with a status,
\* and Err(Status).
DpmItems ==
    {[ok |-> TRUE, index |-> c, kind |-> "Readings",
      reading |-> <<Reading(t)>>] : c \in Chans, t \in DpmTimes}
    \cup {[ok |-> TRUE, index |-> c, kind |-> "Readings",
           reading |-> <<Reading(t), Reading(t + 1)>>] :
              c \in Chans, t \in DpmTimes \ {3}}
    \cup {[ok |-> TRUE, index |-> c, kind |-> "Status",
           facility_code |-> 1, status_code |-> -1] : c \in Chans}
    \cup {[ok |-> FALSE]}

\* reading_to_reply.  A status is stamped with now().
reading_to_reply(rdg) ==
    IF rdg.kind = "Readings"
    THEN DataReply(rdg.index,
             [i \in 1 .. Len(rdg.reading) |->
                 DataInfo(rdg.reading[i].timestamp[1], rdg.reading[i].data)])
    ELSE DataReply(rdg.index,
             <<DataInfo("now",
                   StatusReply(rdg.facility_code + rdg.status_code * 256))>>)

\* xlat_reply.
xlat_reply(e) ==
    IF e.ok THEN reading_to_reply(e)
    ELSE DataReply(-1, <<DataInfo("now", StatusReply(-1))>>)

\* The closure live_data hands to map_while when there is an end time, for
\* the item v: `remaining` afterwards and the Option returned (None ends
\* the stream).
live_data_closure(rem, end, v) ==
    LET rem1 == IF /\ v.ok
                   /\ v.kind = "Readings"
                   /\ v.reading[1].timestamp # None
                   /\ v.reading[1].timestamp[1] <= end
                THEN rem \ {v.index} ELSE rem
    IN [remaining |-> rem1,
        out |-> IF rem1 = {} THEN None ELSE Some(xlat_reply(v))]

\* The stream live_data returns, for the item v: map_while with the closure
\* when there is an end time, map with xlat_reply when there is none.
live_data(rem, end, v) ==
    IF end # None THEN live_data_closure(rem, end[1], v)
    ELSE [remaining |-> rem, out |-> Some(xlat_reply(v))]

\* The DPM stream delivers an item.
LItem ==
    /\ ~lDone
    /\ lN < MaxDpmIn
    /\ \E v \in DpmItems :
          LET st == live_data(live_remaining, end_time, v)
          IN /\ live_remaining' = st.remaining
             /\ lOut' = st.out
             /\ lDone' = (st.out = None)
             /\ lLast' = Some([item |-> v, remaining |-> live_remaining])
             /\ lExceeded' =
                   IF /\ end_time # None
                      /\ v.ok
                      /\ v.kind = "Readings"
                      /\ v.reading[1].timestamp[1] > end_time[1]
                   THEN lExceeded \cup {v.index} ELSE lExceeded
    /\ lN' = lN + 1
    /\ UNCHANGED <<end_time, lClosed>>
    /\ UNCHANGED notLive

\* The DPM stream ends.
LClose ==
    /\ ~lDone
    /\ lDone' = TRUE
    /\ lClosed' = TRUE
    /\ lOut' = None
    /\ lLast' = None
    /\ UNCHANGED <<end_time, live_remaining, lN, lExceeded>>
    /\ UNCHANGED notLive

\* live_data for a request of all devices, with and without an end time:
\* remaining = (0..drfs.len()).collect().
LiveInit ==
    /\ end_time \in {None} \cup {Some(ts) : ts \in EndTimes}
    /\ live_remaining = Chans
    /\ lN = 0
    /\ lDone = FALSE
    /\ lClosed = FALSE
    /\ lOut = None
    /\ lLast = None
    /\ lExceeded = {}

\* The stage at rest in the specifications of the other stages.
LiveIdle == LiveInit /\ end_time = None

LiveNext ==
    \/ LItem
    \/ LClose

\* ------------------------------------------------------ plotconfigdb

\* The names of the configurations.
PlotNames == {"a", "b"}

\* The ids a caller gives to update and remove.
PlotIds == 1 .. MaxPlotId

\* types::PlotConfigurationSnapshot: the id and the name.
PlotConfigurationSnapshot(id, name) ==
    [configuration_id |-> id, configuration_name |-> name]

\* HashMap::insert.
Insert(map, k, v) ==
    [x \in DOMAIN map \cup {k} |-> IF x = k THEN v ELSE map[x]]

\* HashMap::remove.
Remove(map, k) == [x \in DOMAIN map \ {k} |-> map[x]]

\* self.0.keys().reduce(std::cmp::max).unwrap_or(&0usize) + 1
NextId(map) ==
    IF DOMAIN map = {} THEN 1
    ELSE (CHOOSE k \in DOMAIN map : \A x \in DOMAIN map : x <= k) + 1

\* A store that takes any name.
update_unchecked(map, cfg) ==
    IF cfg.configuration_id # None
    THEN [map |-> Insert(map, cfg.configuration_id[1], cfg),
          ret |-> cfg.configuration_id]
    ELSE LET id == NextId(map)
         IN [map |-> Insert(map, id,
                        [cfg EXCEPT !.configuration_id = Some(id)]),
             ret |-> Some(id)]

\* Inner::update on the general configurations: the map afterwards and the
\* Option returned.
update(map, cfg) ==
    IF cfg.configuration_id # None
    THEN LET id == cfg.configuration_id[1]
         IN IF \E k \in DOMAIN map :
                   /\ k # id
                   /\ map[k].configuration_name = cfg.configuration_name
            THEN [map |-> map, ret |-> None]
            ELSE [map |-> Insert(map, id, cfg), ret |-> cfg.configuration_id]
    ELSE IF \E k \in DOMAIN map :
                map[k].configuration_name = cfg.configuration_name
         THEN [map |-> map, ret |-> None]
         ELSE LET id == NextId(map)
              IN [map |-> Insert(map, id,
                             [cfg EXCEPT !.configuration_id = Some(id)]),
                  ret |-> Some(id)]

\* T::update.  (An id the store hands out stays within MaxPlotId.)
DbUpdate ==
    \E id \in {None} \cup {Some(k) : k \in PlotIds}, name \in PlotNames :
        LET cfg == PlotConfigurationSnapshot(id, name)
            u == update(gen_map, cfg)
        IN /\ \A k \in DOMAIN u.map : k <= MaxPlotId
           /\ gen_map' = u.map
           /\ dbLast' = [op |-> "update", cfg |-> cfg, found |-> gen_map,
                         ret |-> u.ret]
           /\ UNCHANGED user_map
           /\ UNCHANGED notDb

\* T::update_user, for the one user there is.
DbUpdateUser ==
    \E id \in {None} \cup {Some(k) : k \in PlotIds}, name \in PlotNames :
        /\ user_map' = Insert(user_map, "user",
                           PlotConfigurationSnapshot(None, ""))
        /\ dbLast' = [op |-> "update_user",
                      cfg |-> PlotConfigurationSnapshot(id, name),
                      found |-> gen_map, ret |-> None]
        /\ UNCHANGED gen_map
        /\ UNCHANGED notDb

\* T::remove.
DbRemove ==
    \E id \in PlotIds :
        /\ gen_map' = Remove(gen_map, id)
        /\ dbLast' = [op |-> "remove",
                      cfg |-> PlotConfigurationSnapshot(Some(id), ""),
                      found |-> gen_map, ret |-> None]
        /\ UNCHANGED user_map
        /\ UNCHANGED notDb

\* Inner::new.
DbInit ==
    /\ gen_map = <<>>
    /\ user_map = <<>>
    /\ dbLast = [op |-> "new", cfg |-> PlotConfigurationSnapshot(None, ""),
                 found |-> <<>>, ret |-> None]

DbNext ==
    \/ DbUpdate
    \/ DbUpdateUser
    \/ DbRemove

\* ---------------------------------------- ACSysQueries::accelerator_data

\* global::DataReply::default().
DataReplyDefault == DataReply(0, <<>>)

\* The items the DPM stream can deliver to a request of n devices: the
\* index of a reply is the position of its device in the request.
QueryItems(n) ==
    {v \in DpmItems : v.ok => v.index < n}

\* Ok(results) and Err(Error::new(msg)).
Ok(r) == [ok |-> TRUE, results |-> r]
Err(msg) == [ok |-> FALSE, error |-> msg]

\* `if remaining.is_empty() { return Ok(results); }`.
QueryDone(rem) == rem = {}

\* One turn of `while let Some(reply) = s.next().await`: the stream delivers
\* an item.  results is indexed from 1, so index i is at i + 1.
QItem ==
    /\ qRet = None
    /\ qIn < MaxQueryIn
    /\ \E v \in QueryItems(q_len) :
          IF v.ok
          THEN LET res == [results EXCEPT
                              ![v.index + 1] = reading_to_reply(v)]
                   rem == q_remaining \ {v.index}
               IN /\ results' = res
                  /\ q_remaining' = rem
                  /\ qRet' = IF QueryDone(rem) THEN Some(Ok(res)) ELSE None
                  /\ qGot' = [qGot EXCEPT ![v.index] = Append(@, v)]
          ELSE /\ qRet' = Some(Err("status"))
               /\ UNCHANGED <<results, q_remaining, qGot>>
    /\ qIn' = qIn + 1
    /\ UNCHANGED q_len
    /\ UNCHANGED notQuery

\* The stream ends: the loop is left.
QClose ==
    /\ qRet = None
    /\ qRet' = Some(Err("DPM didn't return all data"))
    /\ UNCHANGED <<q_len, q_remaining, results, qIn, qGot>>
    /\ UNCHANGED notQuery

\* accelerator_data up to its loop, for a request of no device, of one or
\* of two.
QueryInit ==
    /\ q_len \in 0 .. Cardinality(Chans)
    /\ q_remaining = 0 .. (q_len - 1)
    /\ results = [i \in 1 .. q_len |-> DataReplyDefault]
    /\ qIn = 0
    /\ qRet = None
    /\ qGot = [i \in 0 .. (q_len - 1) |-> <<>>]

\* The stage at rest in the specifications of the other stages.
QueryIdle == QueryInit /\ q_len = Cardinality(Chans)

QueryNext ==
    \/ QItem
    \/ QClose

\* ------------------------------------------------------- specifications

\* A stage that is not part of the specification at hand stays as built.
IdleRest == LiveIdle /\ DbInit /\ QueryIdle

InitMerge ==
    MergeInit /\ FilterInit /\ EndIdle /\ ContIdle /\ TrigIdle /\ IdleRest

InitFilter ==
    FilterInit /\ MergeInit /\ EndIdle /\ ContIdle /\ TrigIdle /\ IdleRest

InitEnd ==
    EndInit /\ MergeInit /\ FilterInit /\ ContIdle /\ TrigIdle /\ IdleRest

InitCont ==
    ContInit /\ MergeInit /\ FilterInit /\ EndIdle /\ TrigIdle /\ IdleRest

InitTrig ==
    TrigInit /\ MergeInit /\ FilterInit /\ EndIdle /\ ContIdle /\ IdleRest

InitLive ==
    /\ LiveInit /\ DbInit /\ QueryIdle
    /\ MergeInit /\ FilterInit /\ EndIdle /\ ContIdle /\ TrigIdle

InitDb ==
    /\ DbInit /\ LiveIdle /\ QueryIdle
    /\ MergeInit /\ FilterInit /\ EndIdle /\ ContIdle /\ TrigIdle

SpecMerge == InitMerge /\ [][MergeNext]_vars

\* The live source goes on delivering and the consumer goes on polling.
SpecMergeFair ==
    /\ InitMerge
    /\ [][MergeFairNext]_vars
    /\ WF_vars(LiveReady)
    /\ []<><<FairPoll>>_vars

SpecFilter == InitFilter /\ [][FilterNext]_vars

SpecEnd == InitEnd /\ [][EndNext]_vars

SpecCont == InitCont /\ [][ContNext]_vars

\* The three stages of the data pipeline, each on a stream of its own: the
\* first step of a run decides which of them the run is about.
StageMerge == FilterInit /\ EndInit /\ MergeNext

StageFilter == MergeInit /\ EndInit /\ FilterNext

StageEnd == MergeInit /\ FilterInit /\ EndNext

StagesNext ==
    \/ StageMerge
    \/ StageFilter
    \/ StageEnd

\* The stages as built, the terminator with an end date for a request of
\* two devices.
InitStages == InitEnd /\ end_date # <<>> /\ total = Cardinality(Chans)

SpecStages == InitStages /\ [][StagesNext]_vars

SpecTrig == InitTrig /\ [][TrigNext]_vars

\* The Trigger-Synchronized Windower under clock events alone.
SpecBeat == InitTrig /\ [][BeatNext]_vars

SpecLive == InitLive /\ [][LiveNext]_vars

SpecDb == InitDb /\ [][DbNext]_vars

InitQuery ==
    /\ QueryInit /\ LiveIdle /\ DbInit
    /\ MergeInit /\ FilterInit /\ EndIdle /\ ContIdle /\ TrigIdle

SpecQuery == InitQuery /\ [][QueryNext]_vars

\* ACSysSubscriptions::accelerator_data returns datastream::merge(s_archived,
\* s_live) as it is: what the subscription delivers for a channel is what
\* the merger emitted for it.
accelerator_data(c) == mOut[c]

\* ------------------------------------------------- claims on the merger

IsPrefix(s, t) == Len(s) <= Len(t) /\ \A i \in 1 .. Len(s) : s[i] = t[i]

\* No live reading stands before an archived reading in s.
ArchivedFirst(s) ==
    \A i, j \in 1 .. Len(s) :
        i < j => ~(s[i].result = "L" /\ s[j].result = "A")

\* C1 as stated: for every channel and every sequence of arrivals, the
\* merger's output for the channel has all archived readings before all live
\* readings.  (Violated: an archived reply that arrives after the channel's
\* sentinel is passed through behind live readings already emitted.)
C1_ArchivedBeforeLive_Always ==
    \A c \in Chans : ArchivedFirst(mOut[c])

\* C1 amended: for every channel whose archived source has sent nothing after
\* its empty sentinel, the merger's output for the channel has all archived
\* readings before all live readings.
C1_ArchivedBeforeLive ==
    \A c \in Chans : archSeal[c] # "violated" => ArchivedFirst(mOut[c])

\* C1 witness: a channel that kept the contract has archived and live
\* readings in the output.
C1_Witness ==
    \E c \in Chans :
        /\ archSeal[c] = "sealed"
        /\ \E i \in 1 .. Len(mOut[c]) : mOut[c][i].result = "A"
        /\ \E i \in 1 .. Len(mOut[c]) : mOut[c][i].result = "L"

\* C2: for a channel whose archived source sent non-empty replies and then one
\* sentinel, the output never holds anything but a prefix of "the archived
\* readings, then the live readings", and once every delivered reply has been
\* consumed it is exactly that sequence.
C2_ExactlyOnceInOrder ==
    \A c \in Chans :
        /\ archSeal[c] # "violated" =>
               IsPrefix(mOut[c], archSent[c] \o liveSent[c])
        /\ (archSeal[c] = "sealed" /\ archQ = <<>> /\ liveQ = <<>>) =>
               mOut[c] = archSent[c] \o liveSent[c]

\* C2 witness: a channel with archived readings, a sentinel and two live
\* replies, the second of them emitted on its own after the sentinel.
C2_Witness ==
    \E c \in Chans :
        /\ archSeal[c] = "sealed" /\ archQ = <<>> /\ liveQ = <<>>
        /\ Len(archSent[c]) = 1 /\ Len(liveSent[c]) = 2
        /\ mItem = <<DataReply(c, <<DataInfo(2, "L")>>)>>
        /\ mOut[c] = archSent[c] \o liveSent[c]

\* C3 as stated, in the form a finite run refutes: once the archived source
\* has signalled end-of-stream and the merger has consumed everything that
\* was delivered (it answers Pending or completion), no live reading is left
\* in a buffer; only an archived reply can release a buffer, so what is left
\* then is never emitted.
C3_LiveDeliveredAfterArchiveEnd ==
    (archived_done /\ mRes \in {"Pending", "Done"}) =>
        \A c \in Chans : pending[c].data = <<>>

\* C8 as stated: for every channel (whose archived source kept the contract)
\* the subscription delivers no reading with a timestamp at or below one it
\* has already delivered for that channel.
C8_DeliveredOnce ==
    \A c \in Chans :
        archSeal[c] = "sealed" =>
            \A i, j \in 1 .. Len(accelerator_data(c)) :
                i < j => accelerator_data(c)[i].timestamp
                             < accelerator_data(c)[j].timestamp


\* The number of readings of channel c in the replies of queue q.
RECURSIVE QueuedLen(_, _)
QueuedLen(q, c) ==
    IF q = <<>> THEN 0
    ELSE (IF Head(q).ref_id = c THEN Len(Head(q).data) ELSE 0)
             + QueuedLen(Tail(q), c)

\* The live readings of channel c the merger has taken from the live
\* source, in the order of their arrival.
TakenLive(c) ==
    SubSeq(liveSent[c], 1, Len(liveSent[c]) - QueuedLen(liveQ, c))

\* C14: when a channel in Buffering state receives an empty archived reply,
\* the channel returns all live readings buffered so far, in arrival order,
\* as one batch, its buffer is left empty and it is FeedThrough; a
\* non-empty batch is the reply that poll_next answers with, and no live
\* reading of the channel was emitted before it.
C14_DrainOnSentinel ==
    \A i \in 1 .. Len(mLog) :
        LET e == mLog[i]
            c == e.ref_id
        IN (e.src = "archived" /\ e.data = <<>> /\ e.chan.mode = "Buffering")
           => /\ e.out = TakenLive(c)
              /\ pending[c] = FeedThrough
              /\ e.out # <<>> =>
                    /\ i = Len(mLog)
                    /\ mItem = <<DataReply(c, e.out)>>
                    /\ \E k \in 0 .. Len(mOut[c]) :
                          /\ \A j \in 1 .. k : mOut[c][j].result = "A"
                          /\ SubSeq(mOut[c], k + 1, Len(mOut[c])) = e.out

\* C14 witness: the sentinel of a channel releases two live readings that
\* arrived in two replies, behind an archived reading.
C14_Witness ==
    \E i \in 1 .. Len(mLog) :
        /\ mLog[i].src = "archived"
        /\ mLog[i].data = <<>>
        /\ mLog[i].chan.mode = "Buffering"
        /\ Len(mLog[i].out) = 2
        /\ Len(mOut[mLog[i].ref_id]) = 3

\* C15: an archived reply for a channel that is FeedThrough (its archived
\* source has sent an empty reply before) is returned as it is and is not
\* buffered, and the channel stays FeedThrough; when the reply is empty
\* nothing is emitted for it, otherwise it is the reply poll_next answers
\* with.
C15_PassThroughAfterSentinel ==
    /\ \A c \in Chans : pending[c].mode = "FeedThrough" => pending[c].data = <<>>
    /\ \A i \in 1 .. Len(mLog) :
          LET e == mLog[i]
          IN (e.src = "archived" /\ e.chan.mode = "FeedThrough")
             => /\ e.out = e.data
                /\ pending[e.ref_id] = e.chan
                /\ e.data # <<>> =>
                      /\ i = Len(mLog)
                      /\ mItem = <<DataReply(e.ref_id, e.data)>>
                /\ e.data = <<>> =>
                      (mItem = <<>> \/ i < Len(mLog))

\* C15 witness: one poll_next takes the sentinel of a channel, whose buffer
\* is empty, and then a non-empty archived reply for a FeedThrough channel.
C15_Witness ==
    /\ Len(mLog) >= 2
    /\ \E i \in 1 .. Len(mLog) :
          /\ mLog[i].src = "archived"
          /\ mLog[i].chan.mode = "FeedThrough"
          /\ mLog[i].data # <<>>
    /\ \E i \in 1 .. Len(mLog) :
          /\ mLog[i].src = "archived"
          /\ mLog[i].chan.mode = "Buffering"
          /\ mLog[i].data = <<>>

\* C16: the archived source is not starved: a reply it has ready is taken
\* by the merger in the end, even when the live source has a reply ready at
\* every poll.
C16_ArchivedNotStarved ==
    (archQ # <<>>) ~> (archQ = <<>>)

\* C24 as stated: when both sources have a reply ready at a poll, the
\* archived reply is the one processed first: a poll_next that leaves a
\* reply at the archived source, or takes one from it, has not taken a live
\* reply before.
C24_ArchivedPolledFirst ==
    (mLog # <<>>
        /\ (archQ # <<>> \/ \E j \in 1 .. Len(mLog) : mLog[j].src = "archived"))
    => mLog[1].src = "archived"

\* C25: a channel starts in Buffering with an empty buffer, it goes from
\* Buffering to FeedThrough only on an empty archived reply for it, and a
\* channel in FeedThrough stays there (so the transition happens at most
\* once); a channel is FeedThrough only when the archived source has sent
\* an empty reply for it.
C25_BufferingThenFeedThrough ==
    /\ \A i \in 1 .. Len(mLog) :
          LET e == mLog[i]
          IN /\ e.fresh => e.chan = DataChannelNew
             /\ e.chan.mode \in {"Buffering", "FeedThrough"}
             /\ e.chan.mode = "FeedThrough" => e.next = FeedThrough
             /\ (e.chan.mode = "Buffering" /\ e.next.mode # "Buffering")
                   => (e.src = "archived" /\ e.data = <<>>
                       /\ e.next = FeedThrough)
             /\ (e.chan.mode = "Buffering" /\ e.src = "archived"
                    /\ e.data = <<>>) => e.next = FeedThrough
    /\ \A c \in Chans :
          /\ pending[c].mode = "FeedThrough" => archSeal[c] # "open"
          /\ pending[c].mode = "Absent" =>
                (mOut[c] = <<>> /\ TakenLive(c) = <<>>)

\* C25 witness: one poll_next takes the empty archived reply of a new
\* channel, which goes from Buffering to FeedThrough, and then a second
\* empty archived reply for it, which leaves it in FeedThrough.
C25_Witness ==
    /\ Len(mLog) = 2
    /\ mLog[1].ref_id = mLog[2].ref_id
    /\ mLog[1].fresh
    /\ mLog[1].chan.mode = "Buffering" /\ mLog[1].next.mode = "FeedThrough"
    /\ mLog[2].src = "archived" /\ mLog[2].data = <<>>
    /\ mLog[2].chan.mode = "FeedThrough" /\ mLog[2].next.mode = "FeedThrough"

\* C26: process_live_data on a channel in Buffering appends the readings
\* to the end of the buffer, returns None and leaves the channel in
\* Buffering; on a channel in FeedThrough it returns the readings as they
\* are and leaves the channel as it is; process_archive_data with a
\* non-empty reply on a channel in Buffering returns the reply as it is and
\* leaves the buffer as it is.
C26_LiveBufferedOrPassed ==
    \A i \in 1 .. Len(mLog) :
        LET e == mLog[i]
        IN /\ (e.src = "live" /\ e.chan.mode = "Buffering") =>
                 /\ ~e.some
                 /\ e.out = <<>>
                 /\ e.next = [mode |-> "Buffering",
                              data |-> e.chan.data \o e.data]
                 /\ (i < Len(mLog) \/ mItem = <<>>)
           /\ (e.src = "live" /\ e.chan.mode = "FeedThrough") =>
                 /\ e.some
                 /\ e.out = e.data
                 /\ e.next = e.chan
           /\ (e.src = "archived" /\ e.chan.mode = "Buffering"
                  /\ e.data # <<>>) =>
                 /\ e.out = e.data
                 /\ e.next = e.chan

\* C26 witness: one poll_next appends a live reading to a buffer that holds
\* one already and then takes a non-empty archived reply for that channel,
\* which it answers with.
C26_Witness ==
    /\ Len(mLog) = 2
    /\ mLog[1].src = "live" /\ mLog[1].chan.mode = "Buffering"
    /\ mLog[1].chan.data # <<>> /\ mLog[1].data # <<>>
    /\ mLog[2].src = "archived" /\ mLog[2].ref_id = mLog[1].ref_id
    /\ mLog[2].data # <<>>
    /\ Len(mLog[2].chan.data) = 2
    /\ mItem = <<DataReply(mLog[2].ref_id, mLog[2].data)>>

\* A poll of source src is in the poll trace t.
Polled(t, src) == \E i \in 1 .. Len(t) : t[i].src = src

\* C27: the merger signals completion exactly when both sources have
\* signalled end-of-stream; a source that has signalled end-of-stream is
\* not polled again; while one source has ended and the other has not,
\* every poll_next polls the other one, and poll_next does not answer
\* Pending while a source that has not ended has a reply ready.
C27_CompletionWhenBothEnded ==
    /\ [](/\ (mRes = "Done") <=> (archived_done /\ live_done)
          /\ archived_done => (archEnd /\ archQ = <<>>)
          /\ live_done => (liveEnd /\ liveQ = <<>>)
          /\ \A i \in 1 .. Len(mPolls) :
                mPolls[i].ans = "None" =>
                    \A j \in (i + 1) .. Len(mPolls) :
                        mPolls[j].src # mPolls[i].src
          /\ (mPolls # <<>> /\ archived_done /\ ~live_done) =>
                Polled(mPolls, "live")
          /\ (mPolls # <<>> /\ live_done /\ ~archived_done) =>
                Polled(mPolls, "archived")
          /\ (mPolls # <<>> /\ mRes = "Pending") =>
                /\ archived_done \/ archQ = <<>>
                /\ live_done \/ liveQ = <<>>)
    /\ [][/\ archived_done => ~Polled(mPolls', "archived")
          /\ live_done => ~Polled(mPolls', "live")]_vars

\* C27 witness: the merger signals completion at a poll_next in which the
\* live source signals its end and the archived source, which has ended
\* before, is not polled, after a live reading was emitted.
C27_Witness ==
    /\ mRes = "Done"
    /\ mPolls = <<[src |-> "live", ans |-> "None"]>>
    /\ \E c \in Chans : \E i \in 1 .. Len(mOut[c]) : mOut[c][i].result = "L"

\* ---------------------------------------- claims on the Duplicate Filter

\* C4: with replies sorted by timestamp, every reading the filter forwards
\* has a timestamp strictly greater than every reading it forwarded for that
\* channel in an earlier reply, and the forwarded readings of a reply are in
\* non-decreasing order.
C4_StrictlyAboveEarlier ==
    \A i \in 1 .. Len(fLog) :
        /\ \A k \in 1 .. Len(fLog[i].sent) :
               \A u \in fLog[i].prior : fLog[i].sent[k].timestamp > u
        /\ SortedByTime(fLog[i].sent)

\* C4 witness: a reply of a channel that already had readings forwarded is
\* forwarded in part.
C4_Witness ==
    \E i \in 1 .. Len(fLog) :
        /\ fLog[i].prior # {}
        /\ fLog[i].sent # <<>>
        /\ Len(fLog[i].sent) < Len(fLog[i].data)

\* C5: when the same sorted batch is fed for the same channel twice in a
\* row, nothing of the second feeding is forwarded and the high-water mark
\* after it is the mark after the first.
C5_SecondFeedingEmpty ==
    \A i \in 1 .. (Len(fLog) - 1) :
        (fLog[i].ref_id = fLog[i + 1].ref_id /\ fLog[i].data = fLog[i + 1].data)
            => (fLog[i + 1].sent = <<>> /\ fLog[i + 1].mark = fLog[i].mark)

\* C5 witness: a batch that was forwarded is fed again.
C5_Witness ==
    \E i \in 1 .. (Len(fLog) - 1) :
        /\ fLog[i].ref_id = fLog[i + 1].ref_id
        /\ fLog[i].data = fLog[i + 1].data
        /\ fLog[i].sent # <<>>
        /\ fLog[i + 1].sent = <<>>

\* C21 as stated: the first non-empty reply of a channel is forwarded with
\* all of its readings, whatever their timestamps, zero included.  (The
\* first reply upstream delivers is the first reply of its channel.)
C21_FirstReplyForwardedWhole ==
    (fN = 1 /\ fQ = <<>> /\ fLog # <<>>) => fLog[1].sent = fLog[1].data

\* The greatest element of a non-empty set of numbers.
MaxOf(S) == CHOOSE x \in S : \A y \in S : y <= x

\* C28: the high-water mark of a channel never decreases: after a
\* non-empty reply it is the maximum of the mark before the reply and the
\* timestamp of the last reading of the reply as it was received, also when
\* nothing of the reply is forwarded, and it is the mark the filter holds
\* until the next reply of the channel.
C28_MarkNeverDecreases ==
    /\ \A i \in 1 .. Len(fLog) :
          LET e == fLog[i]
          IN /\ e.mark = Max(e.before[e.ref_id], Last(e.data).timestamp)
             /\ e.mark >= e.before[e.ref_id]
             /\ e.after[e.ref_id] = e.mark
    /\ \A i \in 1 .. (Len(fLog) - 1) : fLog[i + 1].before = fLog[i].after
    /\ fLog # <<>> => latest = Last(fLog).after

\* C28 witness: a reply whose last reading is below the mark is dropped as
\* a whole and the mark stays above it.
C28_Witness ==
    /\ fLog # <<>>
    /\ Last(fLog).sent = <<>>
    /\ Last(Last(fLog).data).timestamp < Last(fLog).before[Last(fLog).ref_id]
    /\ latest[Last(fLog).ref_id] = Last(fLog).before[Last(fLog).ref_id]

\* C29: the filter treats channels independently: a reply changes the mark
\* of its own channel only, and what is forwarded of it is decided by the
\* readings forwarded for its own channel before: the readings above all of
\* them (and above the epoch).
C29_ChannelsIndependent ==
    \A i \in 1 .. Len(fLog) :
        LET e == fLog[i]
        IN /\ \A c \in Chans \ {e.ref_id} : e.after[c] = e.before[c]
           /\ e.sent = SelectSeq(e.data,
                  LAMBDA info : info.timestamp > MaxOf(e.prior \cup {0}))

\* C29 witness: a reading of one channel is forwarded although its
\* timestamp is below the mark another channel has reached.
C29_Witness ==
    \E i \in 1 .. Len(fLog) :
        \E c \in Chans \ {fLog[i].ref_id} :
            /\ fLog[i].sent # <<>>
            /\ fLog[i].sent[1].timestamp < fLog[i].before[c]

\* -------------------------------------- claims on the Horizon Terminator

\* The readings of d at or before the instant end.
UpTo(d, end) == SelectSeq(d, LAMBDA info : info.timestamp <= end)

\* C6: what the terminator keeps of a reply is the prefix of that reply
\* with the timestamps <= end_date, it holds no reading beyond end_date,
\* and an emitted reply is what was kept of the reply just consumed
\* (nothing held back from an earlier reply).
C6_NothingBeyondEnd ==
    end_date # <<>> =>
        /\ \A i \in 1 .. Len(eLog) :
               /\ eLog[i].sent = UpTo(eLog[i].data, end_date[1])
               /\ eLog[i].sent = SubSeq(eLog[i].data, 1, Len(eLog[i].sent))
               /\ \A k \in 1 .. Len(eLog[i].sent) :
                      eLog[i].sent[k].timestamp <= end_date[1]
        /\ eItem # <<>> =>
               /\ eLog # <<>>
               /\ eItem[1] = DataReply(Last(eLog).ref_id, Last(eLog).sent)

\* C6 witness: a reply with readings on both sides of end_date is emitted
\* cut.
C6_Witness ==
    /\ end_date # <<>>
    /\ eItem # <<>>
    /\ eLog # <<>>
    /\ Len(Last(eLog).sent) < Len(Last(eLog).data)
    /\ eItem[1].data = Last(eLog).sent

\* C7 as stated: once every channel has had a reading beyond end_date the
\* stream terminates even if upstream stays open, so the terminator does not
\* answer Pending (wait for upstream) any more.
C7_TerminatesWhenAllExceeded ==
    exceeded = 0 .. (total - 1) => eRes # "Pending"


\* C19: when no end timestamp is supplied, end_stream_at is the identity:
\* a poll that finds a reply upstream answers with that reply as it is,
\* empty or not, a poll takes no reply that it does not answer with, nothing
\* is counted against any channel, and the stream ends only when upstream
\* has ended and has no reply left.
C19_IdentityWithoutEnd ==
    end_date = <<>> =>
        /\ eRes = "Ready" =>
              /\ Len(eLog) = 1
              /\ eItem = <<DataReply(eLog[1].ref_id, eLog[1].data)>>
        /\ eRes \in {"Pending", "Done"} => (eLog = <<>> /\ eItem = <<>>)
        /\ eRes = "Done" => (eEnd /\ eQ = <<>>)
        /\ remaining = 0 .. (total - 1)

\* C19 witness: with no end timestamp the last reply upstream delivers is
\* empty and a poll answers with it.
C19_Witness ==
    /\ end_date = <<>>
    /\ eN = MaxEndIn
    /\ eRes = "Ready"
    /\ eItem # <<>>
    /\ eItem[1].data = <<>>
    /\ eQ = <<>>

C9_EmitsExactlyWhenComplete ==
    cAppended # None =>
        LET f == cAppended[1]
            complete == \A c \in Chans :
                            \/ f[c].channel_status # 0
                            \/ Len(f[c].channel_data) >= 1
        IN /\ (cOut # None) <=> complete
           /\ cOut # None => cOut[1] = f

\* C9 witness: a reply completes a frame in which one channel has points and
\* no status and the other has a status and no point, after an earlier reply
\* that left the frame incomplete and emitted nothing.
C9_Witness ==
    /\ cN >= 2
    /\ cOut # None
    /\ cFrames = 1
    /\ \E c \in Chans :
          /\ cOut[1][c].channel_status = 0
          /\ cOut[1][c].channel_data # <<>>
    /\ \E c \in Chans :
          /\ cOut[1][c].channel_status # 0
          /\ cOut[1][c].channel_data = <<>>

\* C18 as stated: with an acquisition-count limit N the Continuous Windower
\* emits at most N frames, for every N including 0.
C18_AtMostN ==
    n_acquisitions # None => cFrames <= n_acquisitions[1]

\* C18: with an acquisition-count limit N the Continuous Windower emits at
\* most max(N, 1) frames and ends the stream with the last of them; with no
\* limit the stream of frames ends only when the merged stream ends.
C18_AtMostNOrOne ==
    /\ n_acquisitions # None =>
          LET lim == Max(n_acquisitions[1], 1)
          IN /\ cFrames <= lim
             /\ cFrames = lim => cDone
             /\ cDone => (cFrames = lim \/ cClosed)
    /\ n_acquisitions = None => (cDone => cClosed)

\* C18 witness: a limit of 0 and one frame emitted, after which the stream
\* has ended although the merged stream has not.
C18_Witness ==
    /\ n_acquisitions = Some(0)
    /\ cFrames = 1
    /\ cDone
    /\ ~cClosed
    /\ cN < MaxContIn

\* C31: every frame the Continuous Windower emits after the first has, for
\* every channel, a point or a status that was received after the frame
\* before it was emitted: a reply has arrived for every channel since then.
C31_NoContributionCountedTwice ==
    (cOut # None /\ cFrames >= 2) => cFresh = Chans

\* C32: when the Continuous Windower emits a frame, the frame it goes on
\* with has the same channels in the same order, the units and the rate
\* label of each channel of the emitted frame, and no point.
C32_ReseedKeepsShape ==
    cOut # None =>
        /\ DOMAIN reply = DOMAIN cOut[1]
        /\ \A c \in DOMAIN cOut[1] :
              /\ reply[c].channel_units = cOut[1][c].channel_units
              /\ reply[c].channel_rate = cOut[1][c].channel_rate
              /\ reply[c].channel_data = <<>>

\* C32 witness: the second frame is emitted, one of its channels holding two
\* points or more, and the stream goes on.
C32_Witness ==
    /\ cOut # None
    /\ cFrames = 2
    /\ ~cDone
    /\ \E c \in Chans : Len(cOut[1][c].channel_data) >= 2

\* C33: the status of a channel of the in-progress frame is never above 0,
\* and a reply of status s for a channel whose status was p leaves it at
\* min(p, s): it never rises, and a positive s leaves a status of 0 at 0.
C33_StatusIsRunningMin ==
    /\ \A c \in Chans : reply[c].channel_status <= 0
    /\ cLast # None =>
          LET l == cLast[1]
              now == cAppended[1][l.ref_id].channel_status
          IN /\ now = Min(l.prior, l.sts)
             /\ now <= l.prior
             /\ (l.prior = 0 /\ l.sts > 0) => now = 0
             /\ reply[l.ref_id].channel_status = now
             /\ \A c \in Chans \ {l.ref_id} :
                   cAppended[1][c].channel_status = reply[c].channel_status

\* C33 witness: a reply of a positive status for a channel whose status is 0
\* leaves it at 0, the other channel having been lowered to -1 before.
C33_Witness ==
    /\ cLast # None
    /\ cLast[1].sts > 0
    /\ cLast[1].prior = 0
    /\ reply[cLast[1].ref_id].channel_status = 0
    /\ \E c \in Chans \ {cLast[1].ref_id} : reply[c].channel_status = -1

\* C34: with a point budget M > 0, a reply of one array reading of length L
\* contributes the elements of the array at stride ceil(L / M) when L > M
\* and at stride 1 otherwise, which are M points at most.
C34_DecimationWithinBudget ==
    ( /\ cLast # None
      /\ window_size # None
      /\ window_size[1] > 0
      /\ Len(cLast[1].data) = 1
      /\ cLast[1].data[1].result.type = "ScalarArray" ) =>
        LET a == cLast[1].data[1].result.scalar_array_value
            L == Len(a)
            M == window_size[1]
            stride == IF L > M THEN DivCeil(L, M) ELSE 1
        IN /\ cLast[1].points
                 = Decimate(a, cLast[1].data[1].timestamp, stride, 0)
           /\ Len(cLast[1].points) <= M

\* The points of a sequence are in non-decreasing order of their time.
SortedByX(points) ==
    \A i, j \in 1 .. Len(points) : i < j => points[i].x <= points[j].x

\* C10: when a trigger split at boundary ts with previous trigger timestamp
\* ev_ts is given a channel whose points are sorted by time, the finalized
\* frame holds exactly the points with time < ts, in order, each with x
\* rebased to time - ev_ts and t kept, and the remainder holds exactly the
\* points with time >= ts, in order and unchanged.
C10_SplitAtBoundary ==
    tSplit # None =>
        LET sp == tSplit[1]
        IN \A c \in Chans :
              SortedByX(sp.pre[c]) =>
                  LET early == SelectSeq(sp.pre[c], LAMBDA v : v.x < sp.ts)
                      late == SelectSeq(sp.pre[c], LAMBDA v : v.x >= sp.ts)
                  IN /\ sp.out[c] =
                            [i \in 1 .. Len(early) |->
                                [t |-> early[i].t,
                                 x |-> early[i].t - sp.ev_ts,
                                 y |-> early[i].y]]
                     /\ sp.remaining[c] = late
                     /\ Len(sp.out[c]) + Len(sp.remaining[c]) = Len(sp.pre[c])

\* C10 witness: a split with a trigger timestamp above zero of a sorted
\* channel that holds points on both sides of the boundary.
C10_Witness ==
    /\ tSplit # None
    /\ tSplit[1].ev_ts > 0
    /\ \E c \in Chans :
          /\ SortedByX(tSplit[1].pre[c])
          /\ Len(tSplit[1].out[c]) >= 1
          /\ Len(tSplit[1].remaining[c]) >= 1
          /\ Len(tSplit[1].pre[c]) >= 3


\* ------------------------- claims on the Trigger-Synchronized Windower

\* C11: while no trigger event has been seen, a clock event with timestamp
\* ts removes from every channel of the outgoing frame exactly the points
\* with time < ts and keeps, unchanged and in order, the points with
\* time >= ts.
C11_FlushRemovesEarlier ==
    tFlush # None =>
        \A c \in Chans :
            tFlush[1].post[c] =
                SelectSeq(tFlush[1].pre[c], LAMBDA v : v.x >= tFlush[1].ts)

\* C12: once a data reply with a non-scalar reading has been received, the
\* subscription is over: the loop of the windower has been left.
C12_NonScalarTerminates ==
    tNonScalar => ~tRunning

\* C13: every frame the windower emits carries trigger_timestamp equal to
\* the timestamp of the most recent trigger event seen before the clock
\* event that caused the split.
C13_FrameCarriesTrigger ==
    tOut # None =>
        /\ "trigger_timestamp" \in DOMAIN tOut[1]
        /\ tOut[1].trigger_timestamp = Some(tSplit[1].ev_ts)

C35_NoFrameBeforeTrigger ==
    /\ [](event_time = None => (tOut = None /\ tSplit = None))
    /\ [][(tEv' # None /\ event_time = None) =>
              /\ tFlush' # None
              /\ tSplit' = None
              /\ tOut' = None
              /\ event_time' = IF tEv' = Some(trigger_event)
                               THEN Some(tClock') ELSE None]_vars

\* C35 witness: the first trigger event, after a heartbeat, finds points in
\* the outgoing frame, flushes some of them, sets event_time and emits
\* nothing.
C35_Witness ==
    /\ trigger_event # HEARTBEAT
    /\ tEv = Some(trigger_event)
    /\ tEvents >= 2
    /\ tFlush # None
    /\ event_time = Some(tClock)
    /\ tOut = None
    /\ \E c \in Chans : Len(tFlush[1].post[c]) < Len(tFlush[1].pre[c])

\* C36: every frame the windower emits has a channel with a point; frames
\* are emitted by splits only, and a split emits its finalized portion
\* exactly when some channel of it has a point; after every split the
\* outgoing frame is what the split left of the frame it was given.
C36_FramesNeverEmpty ==
    /\ tOut # None => \E c \in Chans : Len(tOut[1].data[c]) >= 1
    /\ tSplit = None => tOut = None
    /\ tSplit # None =>
          LET sp == tSplit[1]
          IN /\ (\A c \in Chans : sp.out[c] = <<>>) => tOut = None
             /\ (\E c \in Chans : sp.out[c] # <<>>) =>
                    (tOut # None /\ tOut[1].data = sp.out)
             /\ \A c \in Chans :
                    outgoing[c] = SubSeq(sp.pre[c], Len(sp.out[c]) + 1,
                                         Len(sp.pre[c]))

\* C36 witness: a split finalizes nothing and emits nothing, and the points
\* it was given are the new outgoing frame.
C36_Witness ==
    /\ tSplit # None
    /\ tOut = None
    /\ \E c \in Chans : outgoing[c] # <<>>
    /\ outgoing = tSplit[1].pre

\* C37: the heartbeat divisor is in 0 .. 4; a heartbeat event advances it by
\* one modulo 5 and no other step changes it; a clock event that finds a
\* trigger seen splits exactly when it is the trigger or finds the divisor
\* at 0; event_time changes on trigger events only.
C37_DivisorAndSplits ==
    /\ [](divisor \in 0 .. 4)
    /\ [][ /\ tEv' = Some(HEARTBEAT) => divisor' = (divisor + 1) % 5
           /\ tEv' # Some(HEARTBEAT) => divisor' = divisor
           /\ (tEv' # None /\ event_time # None) =>
                  (tSplit' # None <=>
                      (tEv' = Some(trigger_event) \/ divisor = 0))
           /\ tEv' # Some(trigger_event) => event_time' = event_time
         ]_vars

\* C37 witness: with a trigger that is not the heartbeat, the sixth
\* heartbeat finds the divisor back at 0 after a trigger and splits.
C37_Witness ==
    /\ trigger_event # HEARTBEAT
    /\ tEv = Some(HEARTBEAT)
    /\ tEvents = 7
    /\ divisor = 1
    /\ event_time # None
    /\ tSplit # None

\* C38: every point of an emitted frame has a timestamp at or after the
\* trigger timestamp the frame is rebased to, so a relative x of 0 or more,
\* and before the timestamp of the clock event that caused the split.
C38_PointsWithinWindow ==
    tOut # None =>
        \A c \in Chans :
            \A i \in 1 .. Len(tOut[1].data[c]) :
                LET pt == tOut[1].data[c][i]
                IN /\ pt.t >= tSplit[1].ev_ts
                   /\ pt.x >= 0
                   /\ pt.t < tSplit[1].ts

\* ------------------------------------------ claims on the three stages

\* The last answer of source src in the poll trace t of the merger.
LastAnswer(t, src) ==
    LET I == {i \in 1 .. Len(t) : t[i].src = src}
    IN t[CHOOSE i \in I : \A j \in I : j <= i].ans

\* When the merger has answered Pending, every source it has not seen end
\* answered Pending to its last poll of the call; when the last poll of a
\* call took a reply, the call answered with a reply.
MergerKeepsWaker ==
    mPolls # <<>> =>
        /\ mRes = "Pending" =>
              /\ ~live_done =>
                    (Polled(mPolls, "live")
                       /\ LastAnswer(mPolls, "live") = "Pending")
              /\ ~archived_done =>
                    (Polled(mPolls, "archived")
                       /\ LastAnswer(mPolls, "archived") = "Pending")
        /\ Last(mPolls).ans = "Some" => mRes = "Ready"

\* The same of the Duplicate Filter and its one upstream stream.
FilterKeepsWaker ==
    fPolls # <<>> =>
        /\ fRes = "Pending" => Last(fPolls) = "Pending"
        /\ Last(fPolls) = "Some" => fRes = "Ready"

\* C39 as stated: when the merger, the Duplicate Filter or the Horizon
\* Terminator answers Pending, every upstream source it has not seen end
\* answered Pending in that call; and a call that took a reply from
\* upstream and did not emit polls upstream again before it returns, so
\* that a call whose last poll took a reply answers with a reply.
C39_PollsAgainBeforeReturning ==
    /\ MergerKeepsWaker
    /\ FilterKeepsWaker
    /\ ePolls # <<>> =>
          /\ eRes = "Pending" => Last(ePolls) = "Pending"
          /\ Last(ePolls) = "Some" => eRes = "Ready"

\* C39: as above, but for the Horizon Terminator a call whose last poll
\* took a reply either answers with a reply or, the reply having emptied
\* the active set, ends the stream without another poll.
C39_NoLostWakeup ==
    /\ MergerKeepsWaker
    /\ FilterKeepsWaker
    /\ ePolls # <<>> =>
          /\ eRes = "Pending" => Last(ePolls) = "Pending"
          /\ Last(ePolls) = "Some" =>
                 (eRes = "Ready" \/ (eRes = "Done" /\ remaining = {}))

\* C39 witness: a call of the Horizon Terminator takes a reply that it does
\* not emit, a channel staying active, polls again and answers Pending.
C39_Witness ==
    /\ eRes = "Pending"
    /\ ePolls = <<"Some", "Pending">>
    /\ remaining # {}
    /\ end_date # <<>>

\* ------------------------------ claims on the one-shot query

\* C40: the query returns a result only when every index of the request
\* has had a reply; it goes on waiting for replies only while some index
\* has had none, and it returns the error of a stream that has ended only
\* when some index has had none.  The result holds, in request order, the
\* latest reply of every index; an error holds no result.
C40_ResultWhenAllReplied ==
    LET all == \A i \in 0 .. (q_len - 1) : qGot[i] # <<>>
    IN /\ (qRet # None /\ qRet[1].ok) => all
       /\ (qRet = None /\ qIn > 0) => ~all
       /\ (qRet # None /\ ~qRet[1].ok /\ qRet[1].error # "status") => ~all
       /\ (qRet # None /\ qRet[1].ok) =>
              /\ Len(qRet[1].results) = q_len
              /\ \A i \in 0 .. (q_len - 1) :
                     /\ qRet[1].results[i + 1].ref_id = i
                     /\ qRet[1].results[i + 1]
                            = reading_to_reply(Last(qGot[i]))
       /\ (qRet # None /\ ~qRet[1].ok) => "results" \notin DOMAIN qRet[1]

\* ------------------------------------------------- claims on live_data

\* C22 as stated: a live stream with an end time does not close before
\* every requested index has delivered readings with a timestamp beyond the
\* end time; an index leaves `remaining` only with readings whose timestamp
\* is beyond the end time; readings at or before the end time are
\* forwarded.
C22_ClosesAfterEndTime ==
    end_time # None =>
        /\ (lDone /\ ~lClosed) => lExceeded = Chans
        /\ lLast # None =>
              LET v == lLast[1].item
              IN /\ live_remaining # lLast[1].remaining =>
                       /\ v.ok
                       /\ v.kind = "Readings"
                       /\ v.reading[1].timestamp[1] > end_time[1]
                 /\ (v.ok /\ v.kind = "Readings"
                        /\ v.reading[1].timestamp[1] <= end_time[1])
                       => lOut = Some(xlat_reply(v))

\* --------------------------- claims on the plot-configuration store

\* An update of the store `found` with cfg would give two ids one name.
WouldClash(found, cfg) ==
    \E k \in DOMAIN found :
        /\ found[k].configuration_name = cfg.configuration_name
        /\ cfg.configuration_id # Some(k)

\* C23: no two general configurations of the store with different ids have
\* the same name; an update that would give two ids one name returns None
\* and leaves the store as it was, and any other update returns the id it
\* stored the configuration under.
C23_NamesUnique ==
    /\ \A j, k \in DOMAIN gen_map :
          j # k => gen_map[j].configuration_name
                       # gen_map[k].configuration_name
    /\ dbLast.op = "update" =>
          IF WouldClash(dbLast.found, dbLast.cfg)
          THEN dbLast.ret = None /\ gen_map = dbLast.found
          ELSE /\ dbLast.ret # None
               /\ dbLast.ret[1] \in DOMAIN gen_map
               /\ gen_map[dbLast.ret[1]].configuration_name
                      = dbLast.cfg.configuration_name
               /\ \A k \in DOMAIN dbLast.found \ {dbLast.ret[1]} :
                      k \in DOMAIN gen_map /\ gen_map[k] = dbLast.found[k]

\* C23 witness: the store holds two configurations and an update that
\* gives one of them the name of the other has returned None.
C23_Witness ==
    /\ dbLast.op = "update"
    /\ dbLast.ret = None
    /\ dbLast.cfg.configuration_id # None
    /\ dbLast.cfg.configuration_id[1] \in DOMAIN gen_map
    /\ Cardinality(DOMAIN gen_map) = 2

====
